---- MODULE Spec2Model ----
(***************************************************************************)
(* A model of the N-API C++ wrapper layer of src/napi-inl.h: the error     *)
(* translation (Error::New, ThrowAsJavaScriptException, the catch clause   *)
(* of every trampoline, Error::Message), the AsyncWorker life cycle and    *)
(* moves, the registered                                                   *)
(* callbacks and ObjectWrap<T>, the registration of functions and class    *)
(* properties, CallbackInfo, Reference<T> with ObjectReference and         *)
(* FunctionReference, and the handle scopes, over an abstract host runtime *)
(* (pending exception, object heap, last-error info, handle scope stack,   *)
(* async work queue, wrapped objects, persistent roots).                   *)
(*                                                                         *)
(* The host ABI is taken as working: an entry point called with valid      *)
(* arguments fails only for the reasons its contract names (a host         *)
(* function that throws, a value of the wrong type).  Where the code has a *)
(* branch for the failure of an entry point whose contract names none, the *)
(* failure is an input of the action that models the call.                 *)
(***************************************************************************)
EXTENDS Integers, Sequences, FiniteSets, TLC

\* ------------------------------------------------------------------------
\* Bounds
\* ------------------------------------------------------------------------
NumWorkers == 2     \* AsyncWorker objects constructed
MaxSets    == 2     \* SetErrorMessage calls made by one Execute()
MaxOps     == 2     \* ThrowAsJavaScriptException calls made by one user callback

Workers == 1..NumWorkers
NumObjects == 2      \* construct calls the host makes
NumRefs == 2         \* Reference<T> objects
MaxRoots == 2        \* napi_create_reference calls
MaxCount == 2        \* the highest count Ref() takes a root to
MaxScopes == 1       \* handle scopes user code holds open around its references
MaxArgs == 7         \* arguments the host passes in one call
MaxMetas == 2        \* registrations that allocate callback metadata
MaxDefs == 2         \* functions and classes defined
MaxCalls == 3        \* Message() calls made on one Error object
Refs == 1..NumRefs

\* ------------------------------------------------------------------------
\* Byte strings.  A message is a sequence of bytes; a C string ends at its
\* first NUL byte, a std::string carries its own length.
\* ------------------------------------------------------------------------
Boom      == <<98, 111, 111, 109>>          \* "boom"
WithNul   == <<98, 0, 109>>                 \* "b\0m", a std::string with an inner NUL
JsText    == <<106, 115>>                   \* "js", message of a value thrown by host code
ErrorMsgs == {<<>>, Boom, WithNul}          \* what Execute() may pass to SetErrorMessage

\* "Error in native callback"
FallbackMsg == <<69, 114, 114, 111, 114, 32, 105, 110, 32, 110, 97, 116, 105, 118,
                 101, 32, 99, 97, 108, 108, 98, 97, 99, 107>>

RECURSIVE strlenFrom(_, _)
strlenFrom(bytes, i) ==
    IF i > Len(bytes) \/ bytes[i] = 0 THEN i - 1 ELSE strlenFrom(bytes, i + 1)

\* strlen(p): the number of bytes before the first NUL
strlen(bytes) == strlenFrom(bytes, 1)

\* napi_create_string_utf8(env, p, length, &result)
napi_create_string_utf8(bytes, length) == SubSeq(bytes, 1, length)

\* ------------------------------------------------------------------------
\* The host runtime as this layer sees it.
\*   pending : the pending host exception (a napi_value, 0 when none)
\*   heap    : the host objects created so far; a napi_value is an index
\*   last    : napi_get_last_error_info()
\*   thrown  : the values passed to napi_throw, in order
\*   scopes  : the stack of open handle scopes
\*   escaped : the open escapable scopes on which napi_escape_handle was called
\* ------------------------------------------------------------------------
NoMessage == <<0>>      \* info->error_message == nullptr

TypeExpectedCodes ==
    {"napi_object_expected", "napi_string_expected",
     "napi_boolean_expected", "napi_number_expected"}

OtherCodes == {"napi_invalid_arg", "napi_function_expected",
               "napi_generic_failure", "napi_pending_exception"}

StatusCodes == TypeExpectedCodes \cup OtherCodes

HostInit ==
    [pending |-> 0, heap |-> <<>>,
     last |-> [error_code |-> "napi_ok", error_message |-> NoMessage],
     thrown |-> <<>>, scopes |-> <<>>, escaped |-> {}]

\* Env::IsExceptionPending
IsExceptionPending(h) == h.pending # 0

\* napi_create_error / napi_create_type_error / napi_create_range_error
napi_create_error(h, kind, message) ==
    [h EXCEPT !.heap = Append(@, [kind |-> kind, message |-> message])]

\* napi_throw(env, value)
napi_throw(h, value) ==
    [h EXCEPT !.pending = value, !.thrown = Append(@, value)]

\* napi_get_and_clear_last_exception(env, &error)
napi_get_and_clear_last_exception(h) == [h EXCEPT !.pending = 0]

\* A failing ABI call: the status code and message it leaves behind, and the
\* host exception it leaves pending when host code threw (withPending: the
\* value host code threw, allocated here).
AbiFailure(h, code, message, withPending) ==
    LET h1 == [h EXCEPT !.last = [error_code |-> code, error_message |-> message]]
    IN IF withPending
       THEN [h1 EXCEPT !.heap = Append(@, [kind |-> "Thrown", message |-> JsText]),
                       !.pending = Len(h.heap) + 1]
       ELSE h1

\* Error::New(napi_env), the branch taken when no exception is pending, with
\* napi_number_expected missing from the type-error cases.
Error_New_synthesize_three(h) ==
    LET info == h.last
        error_message == IF info.error_message # NoMessage
                         THEN info.error_message ELSE FallbackMsg
        message == napi_create_string_utf8(error_message, strlen(error_message))
        kind == IF info.error_code \in TypeExpectedCodes \ {"napi_number_expected"}
                THEN "TypeError" ELSE "Error"
    IN [host |-> napi_create_error(h, kind, message), value |-> Len(h.heap) + 1]

\* Error::New(napi_env), the branch taken when no exception is pending: a
\* host error made from the ABI's last-error info.  The result is the new
\* host state and the napi_value the returned Error wraps.
Error_New_synthesize(h) ==
    LET info == h.last
        error_message == IF info.error_message # NoMessage
                         THEN info.error_message ELSE FallbackMsg
        message == napi_create_string_utf8(error_message, strlen(error_message))
        kind == IF info.error_code \in TypeExpectedCodes
                THEN "TypeError" ELSE "Error"
    IN [host |-> napi_create_error(h, kind, message), value |-> Len(h.heap) + 1]

\* Error::New(napi_env) leaving the captured exception pending.
Error_New_env_keepPending(h) ==
    IF IsExceptionPending(h)
    THEN [host |-> h, value |-> h.pending]
    ELSE Error_New_synthesize(h)

\* Error::New(napi_env) clearing the pending exception and making an error
\* from the last-error info in its place.
Error_New_env_replaces(h) ==
    IF IsExceptionPending(h)
    THEN Error_New_synthesize(napi_get_and_clear_last_exception(h))
    ELSE Error_New_synthesize(h)

\* Error::New(napi_env)
Error_New_env(h) ==
    IF IsExceptionPending(h)
    THEN [host |-> napi_get_and_clear_last_exception(h), value |-> h.pending]
    ELSE Error_New_synthesize(h)

\* template Error::New<TError>(env, message, length, create_error)
Error_New_T(h, kind, message, length) ==
    [host |-> napi_create_error(h, kind, napi_create_string_utf8(message, length)),
     value |-> Len(h.heap) + 1]

\* Error::New(napi_env, const char*)
Error_New_cstr(h, message) == Error_New_T(h, "Error", message, strlen(message))

\* Error::New(napi_env, const std::string&) taking the length with strlen.
Error_New_string_strlen(h, message) == Error_New_T(h, "Error", message, strlen(message))

\* Error::New(napi_env, const std::string&)
Error_New_string(h, message) == Error_New_T(h, "Error", message, Len(message))

\* Error::ThrowAsJavaScriptException without the test for an empty Error.
ThrowAsJavaScriptException_unguarded(h, value) == napi_throw(h, value)

\* Error::ThrowAsJavaScriptException
ThrowAsJavaScriptException(h, value) ==
    IF value # 0 THEN napi_throw(h, value) ELSE h

\* A HandleScope constructor that opens no scope.
HandleScope_Open_none(h, scope) == h

\* HandleScope::HandleScope(Napi::Env) / EscapableHandleScope(Napi::Env)
HandleScope_Open(h, scope) == [h EXCEPT !.scopes = Append(@, scope)]

\* HandleScope::~HandleScope / EscapableHandleScope::~EscapableHandleScope:
\* closes the scope this object opened (the topmost one, scopes being closed
\* in the reverse order of their opening by stack unwinding).
HandleScope_Close(h, scope) ==
    IF Len(h.scopes) > 0 /\ h.scopes[Len(h.scopes)] = scope
    THEN [h EXCEPT !.scopes = SubSeq(@, 1, Len(@) - 1), !.escaped = @ \ {scope}]
    ELSE h

ScopeOpen(h, scope) == \E i \in 1..Len(h.scopes) : h.scopes[i] = scope

\* ------------------------------------------------------------------------
\* State
\* ------------------------------------------------------------------------
VARIABLES
    host,        \* the host runtime, see HostInit
    crashed,     \* the process was terminated by an uncaught native exception
    worker,      \* worker[w]: the fields of AsyncWorker object w
    work,        \* work[r]: the host's async work handle r (napi_work)
    hostPhase,   \* hostPhase[r]: 0 not queued, 1..3 next hook slot to call, 4 done
    active,      \* active[r]: the hooks of work r that are running
    mainOwner,   \* the work whose hook occupies the main thread, 0 when free
    cstep,       \* cstep[r]: position inside WorkComplete
    inflight,    \* inflight[r]: the napi_value of the native Error being thrown
    nsets,       \* nsets[w]: SetErrorMessage calls made so far
    written,     \* written[w]: the last message Execute() passed to SetErrorMessage
    cbCalls,     \* cbCalls[f]: the invocations of host function f so far
    taken,       \* taken[w]: the OnOK / OnError hooks WorkComplete has run, each
                 \* with the _errmsg WorkComplete read
    deletes,     \* deletes[w]: [worker, work] number of deletions
    uaf,         \* uaf[w]: a hook ran on the deleted worker w
    log,         \* log[r]: the hook starts and ends of work r, in order
    tpc,         \* where the host's call into a trampoline stands
    call,        \* the call in progress: trampoline, thrown Error, return slot
    nops,        \* ThrowAsJavaScriptException calls the user callback has made
    lastNew,     \* the last Error::New(env): host before and after, result
    lastThrow,   \* the last ThrowAsJavaScriptException: host before and after, Error
    objs,        \* the host objects made by construct calls: wrap state, reachability
    insts,       \* the native ObjectWrap<T> instances made so far
    lastCall,    \* the last complete call of a registered trampoline or of Unwrap
    metas,       \* the callback metadata records allocated by registrations
    defs,        \* the host functions and classes made by registrations
    refs,        \* refs[r]: the fields of Reference<T> object r
    roots,       \* roots[k]: the host's persistent root k (napi_ref)
    collected,   \* the host values the garbage collector has reclaimed
    lastOp,      \* the Value() call that has just returned and its result
    error        \* the native Error object user code holds and its Message() calls

asyncVars == <<worker, work, hostPhase, active, mainOwner, cstep, inflight,
               nsets, written, cbCalls, taken, deletes, uaf, log>>

trampVars == <<tpc, call, nops, lastNew, lastThrow>>

wrapVars == <<objs, insts, lastCall, metas, defs>>

refVars == <<refs, roots, collected, lastOp>>

errVars == <<error>>

vars == <<host, crashed, asyncVars, trampVars, wrapVars, refVars, errVars>>

Hooks == {"OnExecute", "OnWorkComplete", "OnDestroy"}

\* AsyncWorker::AsyncWorker(const Function& callback): worker w holds a
\* persistent reference to its completion callback (host function w), a
\* persistent reference to a fresh object (the bag, root w), the
\* environment, an empty error message and a fresh async work handle.
AsyncWorker_New(w) ==
    [alive |-> TRUE, _callback |-> w, _persistent |-> w, _env |-> "env1",
     _errmsg |-> <<>>, _work |-> w]

WorkInit ==
    [valid |-> TRUE, data |-> 0, execute |-> "none", complete |-> "none",
     destroy |-> "none"]

AsyncInit ==
    /\ worker = [w \in Workers |-> AsyncWorker_New(w)]
    /\ work = [r \in Workers |-> WorkInit]
    /\ hostPhase = [r \in Workers |-> 0]
    /\ active = [r \in Workers |-> {}]
    /\ mainOwner = 0
    /\ cstep = [r \in Workers |-> "none"]
    /\ inflight = [r \in Workers |-> 0]
    /\ nsets = [w \in Workers |-> 0]
    /\ written = [w \in Workers |-> <<>>]
    /\ cbCalls = [f \in Workers |-> <<>>]
    /\ taken = [w \in Workers |-> <<>>]
    /\ deletes = [w \in Workers |-> [worker |-> 0, work |-> 0]]
    /\ uaf = [w \in Workers |-> FALSE]
    /\ log = [r \in Workers |-> <<>>]

NoCall ==
    [kind |-> "none", threw |-> FALSE, caught |-> FALSE, e |-> 0,
     pendingAtCatch |-> 0, thrownAtCatch |-> 0, ret |-> "unset"]

TrampInit ==
    /\ tpc = "idle"
    /\ call = NoCall
    /\ nops = 0
    /\ lastNew = [made |-> FALSE]
    /\ lastThrow = [made |-> FALSE]

\* No class has been instantiated and no registered function called yet.
NoWrapCall ==
    [kind |-> "none", isConstructCall |-> FALSE, registered |-> "none",
     recv |-> 0, recvState |-> "plain", behaviour |-> "none",
     userRan |-> FALSE, threw |-> FALSE,
     info |-> [_this |-> 0, _data |-> "none"], instance |-> 0,
     result |-> <<>>, ret |-> <<>>, created |-> 0, wrapCalls |-> 0,
     args |-> [fails |-> "none", threw |-> FALSE, _argc |-> 0,
               _dynamicArgs |-> FALSE, news |-> 0, deletes |-> 0]]

WrapInit ==
    /\ objs = <<>>
    /\ insts = <<>>
    /\ lastCall = NoWrapCall
    /\ metas = <<>>
    /\ defs = <<>>

\* The storage of a Reference<T> object before its constructor has run.
NoRef ==
    [state |-> "none",
     obj |-> [_env |-> "nullptr", _ref |-> 0, _suppressDestruct |-> FALSE]]

\* No call on a reference has just returned.  Otherwise: the operation and
\* the object it was called on, whether it threw, the handle (Value) or the
\* count (Ref, Unref) it returned, the count it found (Ref, Unref), and the
\* operations that returned just before it without the host running between.
NoRefOp ==
    [op |-> "none", r |-> 0, threw |-> FALSE, value |-> "nullptr",
     from |-> 0, count |-> 0, prior |-> <<>>]

RefInit ==
    /\ refs = [r \in Refs |-> NoRef]
    /\ roots = <<>>
    /\ collected = {}
    /\ lastOp = NoRefOp

\* User code holds no Error object.  Otherwise: the fields of the object,
\* the Message() calls made on it so far, the reads of the host value's
\* message property they made, and what the last call returned.
NoError ==
    [state |-> "none", obj |-> [_env |-> "nullptr", _value |-> 0, _message |-> <<>>],
     calls |-> 0, reads |-> 0, last |-> <<>>, threw |-> FALSE]

ErrInit == error = NoError

Init ==
    /\ host = HostInit
    /\ crashed = FALSE
    /\ AsyncInit
    /\ TrampInit
    /\ WrapInit
    /\ RefInit
    /\ ErrInit

\* ------------------------------------------------------------------------
\* AsyncWorker
\* ------------------------------------------------------------------------

\* The hook registrations of AsyncWorker::Queue, with execute and complete
\* exchanged.
AsyncWorker_QueueHooks_swapped(wk, self) ==
    [wk EXCEPT !.data = self, !.execute = "OnWorkComplete",
               !.complete = "OnExecute", !.destroy = "OnDestroy"]

\* The hook registrations of AsyncWorker::Queue, with complete and destroy
\* exchanged.
AsyncWorker_QueueHooks_destroyFirst(wk, self) ==
    [wk EXCEPT !.data = self, !.execute = "OnExecute",
               !.complete = "OnDestroy", !.destroy = "OnWorkComplete"]

\* AsyncWorker::Queue: napi_async_set_data / set_execute / set_complete /
\* set_destroy on the worker's work handle.
AsyncWorker_QueueHooks(wk, self) ==
    [wk EXCEPT !.data = self, !.execute = "OnExecute",
               !.complete = "OnWorkComplete", !.destroy = "OnDestroy"]

\* The issuer calls Queue() on a worker it constructed (once: queueing a
\* worker twice is outside the issuer's contract).  napi_async_queue_worker
\* hands the work to the host.
Queue(w) ==
    /\ ~crashed
    /\ mainOwner = 0
    /\ worker[w].alive
    /\ worker[w]._work # 0
    /\ hostPhase[worker[w]._work] = 0
    /\ LET r == worker[w]._work
       IN /\ work' = [work EXCEPT ![r] = AsyncWorker_QueueHooks(@, w)]
          /\ hostPhase' = [hostPhase EXCEPT ![r] = 1]
    /\ UNCHANGED <<errVars, trampVars, wrapVars, refVars>>
    /\ UNCHANGED <<host, crashed, worker, active, mainOwner, cstep, inflight,
                   nsets, written, cbCalls, taken, deletes, uaf, log>>

\* The hook the host calls in a phase of a work item.
HookSlot(wk, phase) ==
    CASE phase = 1 -> wk.execute
      [] phase = 2 -> wk.complete
      [] OTHER     -> wk.destroy

\* The host async machinery starts the next hook of work r: the execute slot
\* on a thread of the pool, then the complete slot and the destroy slot on
\* the main thread, each after the previous one has returned.
HostInvoke(r) ==
    /\ ~crashed
    /\ hostPhase[r] \in 1..3
    /\ active[r] = {}
    /\ hostPhase[r] >= 2 => mainOwner = 0
    /\ LET h == HookSlot(work[r], hostPhase[r])
           self == work[r].data
       IN /\ active' = [active EXCEPT ![r] = {h}]
          /\ log' = [log EXCEPT ![r] = Append(@, <<h, "start">>)]
          /\ cstep' = [cstep EXCEPT ![r] = IF h = "OnWorkComplete" THEN "entry" ELSE @]
          /\ uaf' = [uaf EXCEPT ![self] = @ \/ ~worker[self].alive]
    /\ mainOwner' = IF hostPhase[r] >= 2 THEN r ELSE mainOwner
    /\ UNCHANGED <<errVars, trampVars, wrapVars, refVars>>
    /\ UNCHANGED <<host, crashed, worker, work, hostPhase, inflight, nsets,
                   written, cbCalls, taken, deletes>>

\* The hook h of work r returns to the host.
HookReturn(r, h) ==
    /\ active' = [active EXCEPT ![r] = @ \ {h}]
    /\ hostPhase' = [hostPhase EXCEPT ![r] = @ + 1]
    /\ mainOwner' = IF mainOwner = r THEN 0 ELSE mainOwner
    /\ log' = [log EXCEPT ![r] = Append(@, <<h, "end">>)]

\* AsyncWorker::SetErrorMessage, called by the user's Execute() on the pool
\* thread.
Execute_SetErrorMessage(r, msg) ==
    /\ ~crashed
    /\ "OnExecute" \in active[r]
    /\ LET self == work[r].data
       IN /\ nsets[self] < MaxSets
          /\ worker' = [worker EXCEPT ![self]._errmsg = msg]
          /\ written' = [written EXCEPT ![self] = msg]
          /\ nsets' = [nsets EXCEPT ![self] = @ + 1]
    /\ UNCHANGED <<errVars, trampVars, wrapVars, refVars>>
    /\ UNCHANGED <<host, crashed, work, hostPhase, active, mainOwner, cstep,
                   inflight, cbCalls, taken, deletes, uaf, log>>

\* AsyncWorker::OnExecute: self->Execute() returns.
OnExecute_Return(r) ==
    /\ ~crashed
    /\ "OnExecute" \in active[r]
    /\ HookReturn(r, "OnExecute")
    /\ UNCHANGED <<errVars, trampVars, wrapVars, refVars>>
    /\ UNCHANGED <<host, crashed, worker, work, cstep, inflight, nsets,
                   written, cbCalls, taken, deletes, uaf>>

WorkScope(r)     == <<r, "WorkComplete">>
CallbackScope(r) == <<r, "MakeCallback">>

\* AsyncWorker::OnWorkComplete -> WorkComplete: HandleScope scope(_env).
WorkComplete_Open(r) ==
    /\ ~crashed
    /\ "OnWorkComplete" \in active[r]
    /\ cstep[r] = "entry"
    /\ host' = HandleScope_Open(host, WorkScope(r))
    /\ cstep' = [cstep EXCEPT ![r] = "scoped"]
    /\ UNCHANGED <<errVars, trampVars, wrapVars, refVars>>
    /\ UNCHANGED <<crashed, worker, work, hostPhase, active, mainOwner,
                   inflight, nsets, written, cbCalls, taken, deletes, uaf, log>>

\* The arguments AsyncWorker::OnOK / OnError pass to the completion callback:
\* the new host state and the argument vector.
OnOK_Args(h, errmsg) == [host |-> h, args |-> <<>>]

OnError_Args(h, errmsg) ==
    LET e == Error_New_string(h, errmsg)
    IN [host |-> e.host, args |-> <<e.value>>]

\* AsyncWorker::WorkComplete, the branch on _errmsg.size().
WorkComplete_Branch(errmsg) == IF Len(errmsg) = 0 THEN "OnOK" ELSE "OnError"

\* WorkComplete runs OnOK or OnError, which call
\* _callback.MakeCallback(Env().Global(), args): FunctionReference::
\* MakeCallback opens an escapable scope and Function::MakeCallback calls
\* napi_make_callback.  The host function returns (returns = TRUE) or throws;
\* when it throws, napi_make_callback fails with the exception pending and
\* Function::MakeCallback throws Error::New(_env).  On an empty _callback
\* no host function is called and the call throws.
WorkComplete_Dispatch(r, returns) ==
    /\ ~crashed
    /\ "OnWorkComplete" \in active[r]
    /\ cstep[r] = "scoped"
    /\ LET self   == work[r].data
           errmsg == worker[self]._errmsg
           branch == WorkComplete_Branch(errmsg)
           built  == IF branch = "OnOK" THEN OnOK_Args(host, errmsg)
                                        ELSE OnError_Args(host, errmsg)
           h1     == HandleScope_Open(built.host, CallbackScope(r))
           f      == worker[self]._callback
           made   == [args   |-> [i \in 1..Len(built.args) |-> h1.heap[built.args[i]]],
                      scopes |-> h1.scopes]
       IN /\ taken' = [taken EXCEPT ![self] = Append(@, [hook |-> branch, errmsg |-> errmsg])]
          /\ cbCalls' = IF f # 0 THEN [cbCalls EXCEPT ![f] = Append(@, made)]
                        ELSE cbCalls
          /\ IF returns /\ f # 0
             THEN /\ host' = HandleScope_Close(h1, CallbackScope(r))
                  /\ cstep' = [cstep EXCEPT ![r] = "invoked"]
                  /\ UNCHANGED inflight
             ELSE LET failed == IF f # 0
                                THEN AbiFailure(h1, "napi_pending_exception", NoMessage, TRUE)
                                ELSE AbiFailure(h1, "napi_invalid_arg", NoMessage, FALSE)
                      e      == Error_New_env(failed)
                  IN /\ host' = e.host
                     /\ cstep' = [cstep EXCEPT ![r] = "throwing"]
                     /\ inflight' = [inflight EXCEPT ![r] = e.value]
    /\ UNCHANGED <<errVars, trampVars, wrapVars, refVars>>
    /\ UNCHANGED <<crashed, worker, work, hostPhase, active, mainOwner, nsets,
                   written, deletes, uaf, log>>

\* WorkComplete returns normally: ~HandleScope closes the scope, the objects
\* created in it become unreachable, and OnWorkComplete returns to the host.
WorkComplete_Return(r) ==
    /\ ~crashed
    /\ "OnWorkComplete" \in active[r]
    /\ cstep[r] = "invoked"
    /\ host' = [HandleScope_Close(host, WorkScope(r)) EXCEPT !.heap = <<>>]
    /\ cstep' = [cstep EXCEPT ![r] = "none"]
    /\ HookReturn(r, "OnWorkComplete")
    /\ UNCHANGED <<errVars, trampVars, wrapVars, refVars>>
    /\ UNCHANGED <<crashed, worker, work, inflight, nsets, written, cbCalls,
                   taken, deletes, uaf>>

\* The native Error thrown inside WorkComplete meets no handler:
\* OnWorkComplete has no try block and the caller is the host's C code.  The
\* process is terminated; whether the stack is unwound first (the scopes
\* closed by their destructors, the exception leaving the hook) is up to the
\* implementation.
WorkComplete_Unwind(r) ==
    /\ ~crashed
    /\ "OnWorkComplete" \in active[r]
    /\ cstep[r] = "throwing"
    /\ host' = HandleScope_Close(HandleScope_Close(host, CallbackScope(r)), WorkScope(r))
    /\ cstep' = [cstep EXCEPT ![r] = "none"]
    /\ active' = [active EXCEPT ![r] = @ \ {"OnWorkComplete"}]
    /\ log' = [log EXCEPT ![r] = Append(@, <<"OnWorkComplete", "threw">>)]
    /\ crashed' = TRUE
    /\ UNCHANGED <<errVars, trampVars, wrapVars, refVars>>
    /\ UNCHANGED <<worker, work, hostPhase, mainOwner, inflight, nsets, written,
                   cbCalls, taken, deletes, uaf>>

WorkComplete_Terminate(r) ==
    /\ ~crashed
    /\ "OnWorkComplete" \in active[r]
    /\ cstep[r] = "throwing"
    /\ crashed' = TRUE
    /\ UNCHANGED <<errVars, trampVars, wrapVars, refVars>>
    /\ UNCHANGED <<host, asyncVars, wrapVars, refVars>>

\* AsyncWorker::~AsyncWorker on the fields of a worker: the work handle is
\* deleted when _work is not null, and _work is nulled.
AsyncWorker_Destroy(wr) ==
    [wr EXCEPT !.alive = FALSE, !._work = 0, !._callback = 0, !._persistent = 0]

\* AsyncWorker::OnDestroy: delete self.
OnDestroy_Delete(wr) == AsyncWorker_Destroy(wr)

OnDestroy_Run(r) ==
    /\ ~crashed
    /\ "OnDestroy" \in active[r]
    /\ LET self  == work[r].data
           after == OnDestroy_Delete(worker[self])
           gone  == worker[self].alive /\ ~after.alive
           wk    == worker[self]._work
       IN /\ worker' = [worker EXCEPT ![self] = after]
          /\ deletes' = [deletes EXCEPT
                ![self].worker = @ + (IF ~after.alive THEN 1 ELSE 0),
                ![self].work   = @ + (IF gone /\ wk # 0 THEN 1 ELSE 0)]
          /\ work' = IF gone /\ wk # 0
                     THEN [work EXCEPT ![wk].valid = FALSE] ELSE work
    /\ HookReturn(r, "OnDestroy")
    /\ UNCHANGED <<errVars, trampVars, wrapVars, refVars>>
    /\ UNCHANGED <<host, crashed, cstep, inflight, nsets, written, cbCalls,
                   taken, uaf>>

AsyncNext ==
    \/ \E w \in Workers : Queue(w)
    \/ \E r \in Workers : HostInvoke(r)
    \/ \E r \in Workers, msg \in ErrorMsgs : Execute_SetErrorMessage(r, msg)
    \/ \E r \in Workers : OnExecute_Return(r)
    \/ \E r \in Workers : WorkComplete_Open(r)
    \/ \E r \in Workers, returns \in BOOLEAN : WorkComplete_Dispatch(r, returns)
    \/ \E r \in Workers : WorkComplete_Return(r)
    \/ \E r \in Workers : WorkComplete_Unwind(r)
    \/ \E r \in Workers : WorkComplete_Terminate(r)
    \/ \E r \in Workers : OnDestroy_Run(r)

AsyncSpec == Init /\ [][AsyncNext]_vars

\* AsyncWorker::AsyncWorker(AsyncWorker&& other): _env and _work are copied
\* and nulled in other, _persistent and _errmsg are moved; _callback is not
\* named, so the new object's _callback is default-constructed (empty) and
\* other keeps its own.  The result is the new object and what is left of
\* other.
AsyncWorker_MoveCtor(other) ==
    [dst |-> [alive |-> TRUE, _callback |-> 0, _persistent |-> other._persistent,
              _env |-> other._env, _errmsg |-> other._errmsg, _work |-> other._work],
     src |-> [other EXCEPT !._env = "nullptr", !._work = 0, !._persistent = 0,
                           !._errmsg = <<>>]]

\* AsyncWorker::operator =(AsyncWorker&& other): the same four members are
\* overwritten in *this; its _callback stays as it was.
AsyncWorker_MoveAssign(this, other) ==
    [dst |-> [this EXCEPT !._env = other._env, !._work = other._work,
                          !._persistent = other._persistent,
                          !._errmsg = other._errmsg],
     src |-> [other EXCEPT !._env = "nullptr", !._work = 0, !._persistent = 0,
                           !._errmsg = <<>>]]

\* User code moves and destroys workers before any of them is queued.
NothingQueued == \A r \in Workers : hostPhase[r] = 0

\* AsyncWorker b(std::move(a)), b built in storage no worker occupies.
Worker_MoveCtor(dst, src) ==
    /\ ~crashed
    /\ NothingQueued
    /\ dst # src
    /\ ~worker[dst].alive
    /\ worker[src].alive
    /\ LET m == AsyncWorker_MoveCtor(worker[src])
       IN worker' = [worker EXCEPT ![dst] = m.dst, ![src] = m.src]
    /\ UNCHANGED <<errVars, trampVars, wrapVars, refVars>>
    /\ UNCHANGED <<host, crashed, work, hostPhase, active, mainOwner, cstep, inflight,
                   nsets, written, cbCalls, taken, deletes, uaf, log>>

\* b = std::move(a)
Worker_MoveAssign(dst, src) ==
    /\ ~crashed
    /\ NothingQueued
    /\ dst # src
    /\ worker[dst].alive
    /\ worker[src].alive
    /\ LET m == AsyncWorker_MoveAssign(worker[dst], worker[src])
       IN worker' = [worker EXCEPT ![dst] = m.dst, ![src] = m.src]
    /\ UNCHANGED <<errVars, trampVars, wrapVars, refVars>>
    /\ UNCHANGED <<host, crashed, work, hostPhase, active, mainOwner, cstep, inflight,
                   nsets, written, cbCalls, taken, deletes, uaf, log>>

\* The issuer sets the error message of a worker it has not queued.
Worker_SetErrorMessage(w, msg) ==
    /\ ~crashed
    /\ NothingQueued
    /\ worker[w].alive
    /\ worker[w]._work # 0
    /\ worker[w]._errmsg = <<>>
    /\ worker' = [worker EXCEPT ![w]._errmsg = msg]
    /\ written' = [written EXCEPT ![w] = msg]
    /\ UNCHANGED <<errVars, trampVars, wrapVars, refVars>>
    /\ UNCHANGED <<host, crashed, work, hostPhase, active, mainOwner, cstep, inflight,
                   nsets, cbCalls, taken, deletes, uaf, log>>

\* The issuer destroys a worker it has not queued: ~AsyncWorker.  The
\* storage of a worker is reused once.
Worker_Dtor(w) ==
    /\ ~crashed
    /\ NothingQueued
    /\ worker[w].alive
    /\ deletes[w].worker = 0
    /\ LET wk == worker[w]._work
       IN /\ worker' = [worker EXCEPT ![w] = AsyncWorker_Destroy(@)]
          /\ deletes' = [deletes EXCEPT ![w].worker = @ + 1,
                                        ![w].work = @ + (IF wk # 0 THEN 1 ELSE 0)]
          /\ work' = IF wk # 0 THEN [work EXCEPT ![wk].valid = FALSE] ELSE work
    /\ UNCHANGED <<errVars, trampVars, wrapVars, refVars>>
    /\ UNCHANGED <<host, crashed, hostPhase, active, mainOwner, cstep, inflight,
                   nsets, written, cbCalls, taken, uaf, log>>

MoveNext ==
    \/ \E dst \in Workers, src \in Workers : Worker_MoveCtor(dst, src)
    \/ \E dst \in Workers, src \in Workers : Worker_MoveAssign(dst, src)
    \/ \E w \in Workers, msg \in ErrorMsgs : Worker_SetErrorMessage(w, msg)
    \/ \E w \in Workers : Worker_Dtor(w)
    \/ \E w \in Workers : Queue(w)
    \/ \E r \in Workers : HostInvoke(r)
    \/ \E r \in Workers : OnExecute_Return(r)
    \/ \E r \in Workers : WorkComplete_Open(r)
    \/ \E r \in Workers, returns \in BOOLEAN : WorkComplete_Dispatch(r, returns)
    \/ \E r \in Workers : WorkComplete_Return(r)
    \/ \E r \in Workers : WorkComplete_Unwind(r)
    \/ \E r \in Workers : OnDestroy_Run(r)

MoveSpec == Init /\ [][MoveNext]_vars

\* ------------------------------------------------------------------------
\* Trampolines and module registration
\* ------------------------------------------------------------------------
\* "Class constructors cannot be invoked without 'new'"
ConstructorMsg ==
    <<67, 108, 97, 115, 115, 32, 99, 111, 110, 115, 116, 114, 117, 99, 116, 111,
      114, 115, 32, 99, 97, 110, 110, 111, 116, 32, 98, 101, 32, 105, 110, 118,
      111, 107, 101, 100, 32, 119, 105, 116, 104, 111, 117, 116, 32, 39, 110,
      101, 119, 39>>

\* The trampolines that return a value through the ABI return slot, and the
\* ones that do not.
ValueTrampolines ==
    {"FunctionCallbackWrapper", "StaticMethodCallbackWrapper",
     "StaticGetterCallbackWrapper", "InstanceMethodCallbackWrapper",
     "InstanceGetterCallbackWrapper"}

VoidTrampolines ==
    {"VoidFunctionCallbackWrapper", "StaticVoidMethodCallbackWrapper",
     "StaticSetterCallbackWrapper", "InstanceVoidMethodCallbackWrapper",
     "InstanceSetterCallbackWrapper"}

Trampolines ==
    ValueTrampolines \cup VoidTrampolines
        \cup {"ConstructorCallbackWrapper", "RegisterModule"}

ReturnValues == {"v1", "v2"}          \* what a user callback may return
UserErrorKinds == {"Error", "TypeError", "RangeError"}
AbiMessages == {NoMessage, <<>>, Boom}  \* info->error_message after a failure

\* napi_throw_type_error(env, msg)
napi_throw_type_error(h, msg) ==
    napi_throw(napi_create_error(h, "TypeError", napi_create_string_utf8(msg, strlen(msg))),
               Len(h.heap) + 1)

\* The host calls a trampoline (no exception is pending when the host calls
\* into native code).  The constructor trampoline called without new throws
\* a type error and returns before any user code runs.
HostCall(kind, isConstructCall) ==
    /\ ~crashed
    /\ tpc = "idle"
    /\ kind # "ConstructorCallbackWrapper" => isConstructCall
    /\ call' = [NoCall EXCEPT !.kind = kind]
    /\ nops' = 0
    /\ IF isConstructCall
       THEN /\ tpc' = "running"
            /\ host' = host
       ELSE /\ tpc' = "returned"
            /\ host' = napi_throw_type_error(host, ConstructorMsg)
    /\ UNCHANGED <<errVars, crashed, asyncVars, wrapVars, refVars, lastNew, lastThrow>>

\* The user callback calls ThrowAsJavaScriptException on an Error of its own,
\* an empty one (Error()) or one made by TError::New(env, message), and goes
\* on running.
User_ThrowAsJavaScriptException(kind) ==
    /\ ~crashed
    /\ tpc = "running"
    /\ nops < MaxOps
    /\ LET made  == IF kind = "empty"
                    THEN [host |-> host, value |-> 0]
                    ELSE Error_New_T(host, kind, Boom, strlen(Boom))
           after == ThrowAsJavaScriptException(made.host, made.value)
       IN /\ host' = after
          /\ lastThrow' = [made |-> TRUE, pre |-> made.host, post |-> after,
                           value |-> made.value]
    /\ nops' = nops + 1
    /\ UNCHANGED <<errVars, crashed, asyncVars, wrapVars, refVars, tpc, call, lastNew>>

\* An ABI call made inside the user callback (or by CallbackInfo's
\* constructor) fails, with host code having thrown or not, and the call
\* site does: if (status != napi_ok) throw Error::New(env).
User_AbiCallFails(code, message, withPending) ==
    /\ ~crashed
    /\ tpc = "running"
    /\ withPending => ~IsExceptionPending(host) /\ code = "napi_pending_exception"
    /\ LET failed == AbiFailure(host, code, message, withPending)
           e      == Error_New_env(failed)
       IN /\ host' = e.host
          /\ lastNew' = [made |-> TRUE, pre |-> failed, post |-> e.host,
                         value |-> e.value]
          /\ call' = [call EXCEPT !.threw = TRUE, !.e = e.value]
    /\ tpc' = "thrown"
    /\ UNCHANGED <<errVars, crashed, asyncVars, wrapVars, refVars, nops, lastThrow>>

\* The user callback throws TError::New(env, message) ...
User_ThrowsNew(kind) ==
    /\ ~crashed
    /\ tpc = "running"
    /\ LET e == Error_New_T(host, kind, Boom, strlen(Boom))
       IN /\ host' = e.host
          /\ call' = [call EXCEPT !.threw = TRUE, !.e = e.value]
    /\ tpc' = "thrown"
    /\ UNCHANGED <<errVars, crashed, asyncVars, wrapVars, refVars, nops, lastNew, lastThrow>>

\* ... or an Error that wraps no host value (Error()).
User_ThrowsEmpty ==
    /\ ~crashed
    /\ tpc = "running"
    /\ call' = [call EXCEPT !.threw = TRUE, !.e = 0]
    /\ tpc' = "thrown"
    /\ UNCHANGED <<errVars, host, crashed, asyncVars, wrapVars, refVars, nops, lastNew, lastThrow>>

\* The catch clause without the test for a pending exception.
Trampoline_Catch_always(h, e) == ThrowAsJavaScriptException(h, e)

\* catch (const Error& e) { if (!IsExceptionPending()) e.Throw...(); return; }
\* The clause is the same in RegisterModule and in every trampoline.
Trampoline_Catch(h, e) ==
    IF ~IsExceptionPending(h) THEN ThrowAsJavaScriptException(h, e) ELSE h

Trampoline_Catches ==
    /\ ~crashed
    /\ tpc = "thrown"
    /\ host' = Trampoline_Catch(host, call.e)
    /\ call' = [call EXCEPT !.caught = TRUE, !.pendingAtCatch = host.pending,
                            !.thrownAtCatch = Len(host.thrown)]
    /\ lastThrow' = IF ~IsExceptionPending(host)
                    THEN [made |-> TRUE, pre |-> host, post |-> host', value |-> call.e]
                    ELSE lastThrow
    /\ tpc' = "returned"
    /\ UNCHANGED <<errVars, crashed, asyncVars, wrapVars, refVars, nops, lastNew>>

\* The user callback returns; a value-returning trampoline stores the result
\* with napi_set_return_value.
User_Returns(v) ==
    /\ ~crashed
    /\ tpc = "running"
    /\ call.kind \in ValueTrampolines \cup VoidTrampolines \cup {"RegisterModule"}
    /\ call' = [call EXCEPT !.ret = IF call.kind \in ValueTrampolines THEN v ELSE @]
    /\ tpc' = "returned"
    /\ UNCHANGED <<errVars, host, crashed, asyncVars, wrapVars, refVars, nops, lastNew, lastThrow>>

\* Control is back in the host: it takes the pending exception, if any, the
\* values of the finished call become garbage, and the next ABI call that
\* succeeds resets the last-error info.
HostResume ==
    /\ ~crashed
    /\ tpc = "returned"
    /\ tpc' = "idle"
    /\ host' = HostInit
    /\ call' = NoCall
    /\ nops' = 0
    /\ lastNew' = [made |-> FALSE]
    /\ lastThrow' = [made |-> FALSE]
    /\ UNCHANGED <<errVars, crashed, asyncVars, wrapVars, refVars>>

ErrorNext ==
    \/ \E kind \in Trampolines, isConstructCall \in BOOLEAN : HostCall(kind, isConstructCall)
    \/ \E kind \in UserErrorKinds \cup {"empty"} : User_ThrowAsJavaScriptException(kind)
    \/ \E code \in StatusCodes, message \in AbiMessages, withPending \in BOOLEAN :
          User_AbiCallFails(code, message, withPending)
    \/ \E kind \in UserErrorKinds : User_ThrowsNew(kind)
    \/ User_ThrowsEmpty
    \/ Trampoline_Catches
    \/ \E v \in ReturnValues : User_Returns(v)
    \/ HostResume

ErrorSpec == Init /\ [][ErrorNext]_vars

\* ------------------------------------------------------------------------
\* Error::Message.  A host value of kind Error, TypeError, RangeError or
\* Thrown is an object with a string message property; "Primitive" is a
\* thrown value that is not an object, "Exotic" an object whose message
\* getter throws, "Plain" an object whose message is not a string.
\* ------------------------------------------------------------------------
ObjectKinds == UserErrorKinds \cup {"Thrown", "Exotic", "Plain"}
StringMessageKinds == UserErrorKinds \cup {"Thrown"}
ForeignKinds == {"Primitive", "Exotic", "Plain"}

\* Object::Get(const char* utf8name) for the name "message": the handle of
\* the property (the host value itself stands for its message here), or
\* throw Error::New(Env()) when napi_get_named_property fails.
Object_Get_message(h, value, abiMessage) ==
    LET kind == h.heap[value].kind
    IN IF kind \in ObjectKinds \ {"Exotic"}
       THEN [threw |-> FALSE, host |-> h, value |-> value]
       ELSE LET failed == IF kind = "Exotic"
                          THEN AbiFailure(h, "napi_pending_exception", abiMessage, TRUE)
                          ELSE AbiFailure(h, "napi_object_expected", abiMessage, FALSE)
                e == Error_New_env(failed)
            IN [threw |-> TRUE, host |-> e.host, value |-> e.value]

\* String::Utf8Value: napi_get_value_string_utf8 for the length, then for
\* the bytes (a std::string, which keeps its length), each followed by
\* if (status != napi_ok) throw Error::New(_env).
String_Utf8Value(h, value, abiMessage) ==
    IF h.heap[value].kind \in StringMessageKinds
    THEN [threw |-> FALSE, host |-> h, text |-> h.heap[value].message]
    ELSE LET e == Error_New_env(AbiFailure(h, "napi_string_expected", abiMessage, FALSE))
         IN [threw |-> TRUE, host |-> e.host, text |-> <<>>]

\* Error::Message: if (_message.size() == 0 && _env != nullptr) the message
\* property is read and converted inside try { } catch (const Error&) { },
\* then _message is returned.  reads counts the accesses to the host value.
Error_Message(this, h, abiMessage) ==
    IF Len(this._message) = 0 /\ this._env # "nullptr"
    THEN LET got == Object_Get_message(h, this._value, abiMessage)
             str == String_Utf8Value(got.host, got.value, abiMessage)
         IN IF got.threw
            THEN [this |-> this, host |-> got.host, result |-> this._message,
                  reads |-> 1, threw |-> FALSE]
            ELSE IF str.threw
            THEN [this |-> this, host |-> str.host, result |-> this._message,
                  reads |-> 1, threw |-> FALSE]
            ELSE [this |-> [this EXCEPT !._message = str.text], host |-> str.host,
                  result |-> str.text, reads |-> 1, threw |-> FALSE]
    ELSE [this |-> this, host |-> h, result |-> this._message, reads |-> 0,
          threw |-> FALSE]

\* User code obtains an Error: TError::New(env, message), or the Error that
\* a failed call threw, wrapping the value host code had thrown.
Error_Obtain(kind, message) ==
    /\ ~crashed
    /\ error.state = "none"
    /\ kind \in ForeignKinds => message = <<>>
    /\ LET made == IF kind \in UserErrorKinds
                   THEN Error_New_T(host, kind, message, Len(message))
                   ELSE [host |-> [host EXCEPT !.heap =
                                      Append(@, [kind |-> kind, message |-> message])],
                         value |-> Len(host.heap) + 1]
       IN /\ host' = made.host
          /\ error' = [NoError EXCEPT !.state = "live",
                          !.obj = [_env |-> "env1", _value |-> made.value,
                                   _message |-> <<>>]]
    /\ UNCHANGED <<crashed, asyncVars, trampVars, wrapVars, refVars>>

\* e.Message()
Error_Message_Call(abiMessage) ==
    /\ ~crashed
    /\ error.state = "live"
    /\ error.calls < MaxCalls
    /\ LET m == Error_Message(error.obj, host, abiMessage)
       IN /\ host' = m.host
          /\ error' = [error EXCEPT !.obj = m.this, !.calls = @ + 1,
                                    !.reads = @ + m.reads, !.last = m.result,
                                    !.threw = m.threw]
    /\ UNCHANGED <<crashed, asyncVars, trampVars, wrapVars, refVars>>

\* The Error goes out of scope and control returns to the host.
Error_Destroy ==
    /\ ~crashed
    /\ error.state = "live"
    /\ error' = NoError
    /\ host' = HostInit
    /\ UNCHANGED <<crashed, asyncVars, trampVars, wrapVars, refVars>>

MessageNext ==
    \/ \E kind \in UserErrorKinds \cup ForeignKinds, message \in ErrorMsgs :
          Error_Obtain(kind, message)
    \/ \E abiMessage \in AbiMessages : Error_Message_Call(abiMessage)
    \/ Error_Destroy

MessageSpec == Init /\ [][MessageNext]_vars

\* ------------------------------------------------------------------------
\* Reference<T>: the fields of the object.  _ref is 0 for nullptr, otherwise
\* the number of a host root; _env is "nullptr" or an environment.
\* ------------------------------------------------------------------------
Envs == {"env1"}

\* Reference<T>::Reference()
Reference_Default ==
    [_env |-> "nullptr", _ref |-> 0, _suppressDestruct |-> FALSE]

\* Reference<T>::Reference(napi_env env, napi_ref persistent).  The
\* constructor initializes _env and _ref only: uninit is the value the
\* storage of _suppressDestruct happens to hold.
Reference_FromRef(env, persistent, uninit) ==
    [_env |-> env, _ref |-> persistent, _suppressDestruct |-> uninit]

\* Reference<T>::Reference(Reference<T>&& other): the object constructed
\* (dst) and other afterwards (src).  _suppressDestruct is not initialized.
Reference_MoveCtor(other, uninit) ==
    [dst |-> [_env |-> other._env, _ref |-> other._ref, _suppressDestruct |-> uninit],
     src |-> [other EXCEPT !._env = "nullptr", !._ref = 0]]

\* Reference<T>::operator =(Reference<T>&& other): this afterwards (dst) and
\* other afterwards (src).
Reference_MoveAssign(this, other) ==
    [dst |-> [this EXCEPT !._env = other._env, !._ref = other._ref],
     src |-> [other EXCEPT !._env = "nullptr", !._ref = 0]]

\* Reference<T>::IsEmpty
Reference_IsEmpty(this) == this._ref = 0

\* Reference<T>::~Reference: the roots it passes to napi_delete_reference
Reference_Dtor_Deletes(this) ==
    IF this._ref # 0 /\ ~this._suppressDestruct THEN {this._ref} ELSE {}

\* ------------------------------------------------------------------------
\* Registered callbacks and ObjectWrap<T>.  An action is one complete call
\* into the layer, made from a host state with no exception pending, the
\* host's taking of the outcome, or one step of the host's garbage collector.
\* ------------------------------------------------------------------------
FunctionTrampolines == {"VoidFunctionCallbackWrapper", "FunctionCallbackWrapper"}

InstanceTrampolines ==
    {"InstanceVoidMethodCallbackWrapper", "InstanceMethodCallbackWrapper",
     "InstanceGetterCallbackWrapper", "InstanceSetterCallbackWrapper"}

\* The data pointers user code passes at registration.
UserData == {[to |-> "user", id |-> "d1"], [to |-> "user", id |-> "d2"]}

\* What the user callback (or the user's constructor) does when it runs.
Behaviours(kind) ==
    [does : {"returns"},
     value : IF kind \in ValueTrampolines THEN ReturnValues ELSE {"none"}]
        \cup [does : {"throwsNew", "throwsEmpty", "abiFails", "throwsPending"},
              value : {"none"}]

\* new CallbackData(cb, data), new MethodCallbackData({ cb, data }), ...: a
\* pointer to the record allocated
CallbackData_New(cb, data) == [to |-> "CallbackData", cb |-> cb, data |-> data]

\* Function::New, StaticMethod, StaticAccessor, InstanceMethod,
\* InstanceAccessor: the trampoline and the data pointer handed to the ABI
Register(kind, data) ==
    [trampoline |-> kind, data |-> CallbackData_New("cb", data)]

\* DefineClass: napi_define_class(env, utf8name, ConstructorCallbackWrapper,
\* data, ...)
DefineClass(data) == [trampoline |-> "ConstructorCallbackWrapper", data |-> data]

\* CallbackInfo::CallbackInfo: napi_get_cb_this, napi_get_cb_data
CallbackInfo_New(desc, this) == [_this |-> this, _data |-> desc.data]

\* CallbackInfo::_staticArgCount, the length of the fixed array _staticArgs
staticArgCount == 6

\* The ABI entry points CallbackInfo::CallbackInfo calls, in order.
CallbackInfo_AbiCalls ==
    <<"napi_get_cb_this", "napi_get_cb_args_length", "napi_get_cb_args",
      "napi_get_cb_data">>

\* CallbackInfo::CallbackInfo(env, info) for a call with argc arguments in
\* which the ABI entry point `fails` fails ("none": none does): whether the
\* constructor threw Error::New(_env), whether _dynamicArgs is non-null when
\* it returned or threw, and the number of new napi_value[_argc] executed.
CallbackInfo_Ctor(argc, fails) ==
    LET early == fails \in {"napi_get_cb_this", "napi_get_cb_args_length"}
        dynamic == ~early /\ argc > 0 /\ ~(argc <= staticArgCount)
    IN [fails |-> fails,
        threw |-> \/ early
                  \/ argc > 0 /\ fails = "napi_get_cb_args"
                  \/ fails = "napi_get_cb_data",
        _argc |-> IF early THEN 0 ELSE argc,
        _dynamicArgs |-> dynamic,
        news |-> IF dynamic THEN 1 ELSE 0,
        deletes |-> 0]

\* CallbackInfo::~CallbackInfo
CallbackInfo_Dtor(args) ==
    IF args._dynamicArgs THEN [args EXCEPT !.deletes = @ + 1] ELSE args

\* The CallbackInfo local of a trampoline over the whole call: constructed
\* first thing in the try block and destroyed when the block is left by
\* return or by a native Error; an object whose constructor threw is not
\* destroyed.
CallbackInfo_Local(argc, fails) ==
    LET args == CallbackInfo_Ctor(argc, fails)
    IN IF args.threw THEN args ELSE CallbackInfo_Dtor(args)

\* CallbackInfo::Data
CallbackInfo_Data(callbackInfo) == callbackInfo._data

\* CallbackInfo::SetData
CallbackInfo_SetData(callbackInfo, data) == [callbackInfo EXCEPT !._data = data]

\* The CallbackInfo a trampoline hands to the user callback.  The ObjectWrap
\* trampolines replace the data pointer by callbackData->data; the two
\* Function trampolines read callbackData and pass callbackInfo on as it is.
Trampoline_Info(kind, desc, this) ==
    LET callbackInfo == CallbackInfo_New(desc, this)
        callbackData == CallbackInfo_Data(callbackInfo)
    IN IF kind \in FunctionTrampolines
       THEN callbackInfo
       ELSE CallbackInfo_SetData(callbackInfo, callbackData.data)

\* The state of host object o (0: an object no constructor call made).
ObjectState(os, o) == IF o \in 1..Len(os) THEN os[o].state ELSE "plain"

\* napi_unwrap succeeds on an object that is wrapped by napi_wrap and has not
\* been collected.
napi_unwrap(os, o) == o \in 1..Len(os) /\ os[o].state = "wrapped"

\* ObjectWrap<T>::Unwrap: the instance attached to wrapper o, or the native
\* Error thrown when napi_unwrap fails.
ObjectWrap_Unwrap(h, os, o) ==
    IF napi_unwrap(os, o)
    THEN [host |-> h, threw |-> FALSE, e |-> 0, instance |-> os[o].instance]
    ELSE LET made == Error_New_env(AbiFailure(h, "napi_invalid_arg", NoMessage, FALSE))
         IN [host |-> made.host, threw |-> TRUE, e |-> made.value, instance |-> 0]

\* The user callback runs: it returns, or it throws a native Error: one made
\* by Error::New(env, message), an empty Error(), one made by Error::New(env)
\* after an ABI call failed because host code threw, or one thrown while an
\* exception the callback itself raised in the host is pending.
UserCallback(h, b) ==
    CASE b.does = "returns" ->
            [host |-> h, threw |-> FALSE, e |-> 0,
             result |-> IF b.value = "none" THEN <<>> ELSE <<b.value>>]
      [] b.does = "throwsNew" ->
            LET made == Error_New_cstr(h, Boom)
            IN [host |-> made.host, threw |-> TRUE, e |-> made.value, result |-> <<>>]
      [] b.does = "throwsEmpty" ->
            [host |-> h, threw |-> TRUE, e |-> 0, result |-> <<>>]
      [] b.does = "abiFails" ->
            LET made == Error_New_env(AbiFailure(h, "napi_pending_exception", NoMessage, TRUE))
            IN [host |-> made.host, threw |-> TRUE, e |-> made.value, result |-> <<>>]
      [] b.does = "throwsPending" ->
            LET first == Error_New_cstr(h, JsText)
                raised == ThrowAsJavaScriptException(first.host, first.value)
                made == Error_New_cstr(raised, Boom)
            IN [host |-> made.host, threw |-> TRUE, e |-> made.value, result |-> <<>>]

\* An instance trampoline that does not unwrap its receiver.
Trampoline_Unwrap_skipped(kind, h, os, this) ==
    [host |-> h, threw |-> FALSE, e |-> 0,
     instance |-> IF this \in 1..Len(os) THEN os[this].instance ELSE 0]

\* T* instance = Unwrap(callbackInfo.This()), the first statement of the
\* four instance trampolines after the CallbackInfo is set up.
Trampoline_Unwrap(kind, h, os, this) ==
    IF kind \in InstanceTrampolines
    THEN ObjectWrap_Unwrap(h, os, this)
    ELSE [host |-> h, threw |-> FALSE, e |-> 0, instance |-> 0]

\* A trampoline that stores a return value whatever the callback did.
Trampoline_Return_always(kind, user) ==
    IF kind \in ValueTrampolines
    THEN IF user.threw THEN <<"v1">> ELSE user.result
    ELSE <<>>

\* The ABI return slot when the trampoline returns: napi_set_return_value is
\* the last statement of the value-returning trampolines, after the try
\* block (the catch clause returns); the other trampolines do not call it.
Trampoline_Return(kind, user) ==
    IF kind \in ValueTrampolines /\ ~user.threw THEN user.result ELSE <<>>

\* The host calls a registered function, method or accessor with receiver
\* recv (0: an object no constructor call made) and argc arguments; the
\* callback was registered with the data pointer data, and the ABI entry
\* point `fails` fails when the CallbackInfo is set up ("none": none does).
Trampoline_Run(kind, data, recv, argc, fails, b) ==
    /\ lastCall = NoWrapCall
    /\ kind \in ValueTrampolines \cup VoidTrampolines
    /\ recv \in 0..Len(objs)
    /\ LET desc == Register(kind, data)
           args == CallbackInfo_Local(argc, fails)
           callbackInfo == Trampoline_Info(kind, desc, recv)
           failed == Error_New_env(AbiFailure(HostInit, "napi_generic_failure",
                                              NoMessage, FALSE))
           unwrap == IF args.threw
                     THEN [host |-> failed.host, threw |-> TRUE, e |-> failed.value,
                           instance |-> 0]
                     ELSE Trampoline_Unwrap(kind, HostInit, objs, callbackInfo._this)
           user == IF unwrap.threw
                   THEN [host |-> unwrap.host, threw |-> TRUE, e |-> unwrap.e,
                         result |-> <<>>]
                   ELSE UserCallback(unwrap.host, b)
       IN /\ host' = IF user.threw THEN Trampoline_Catch(user.host, user.e)
                     ELSE user.host
          /\ lastCall' =
                [kind |-> kind, isConstructCall |-> FALSE, registered |-> data,
                 recv |-> recv, recvState |-> ObjectState(objs, recv),
                 behaviour |-> b.does, userRan |-> ~unwrap.threw,
                 threw |-> user.threw,
                 info |-> IF args.threw THEN NoWrapCall.info ELSE callbackInfo,
                 instance |-> unwrap.instance, result |-> user.result,
                 ret |-> Trampoline_Return(kind, user), created |-> 0,
                 wrapCalls |-> 0, args |-> args]
    /\ UNCHANGED <<errVars, crashed, asyncVars, trampVars, refVars, metas, defs, objs, insts>>

\* A call without arguments in which the ABI does not fail.
Invoke(kind, data, recv, b) == Trampoline_Run(kind, data, recv, 0, "none", b)

\* A call with arguments, or one in which reading the call's receiver,
\* arguments or data from the ABI fails.
InvokeArgs(kind, data, recv, argc, fails, b) ==
    /\ argc > 0 \/ fails # "none"
    /\ Trampoline_Run(kind, data, recv, argc, fails, b)

\* The receiver the host makes for a construct call, nothing attached.
PlainObject == [state |-> "plain", instance |-> 0, reachable |-> TRUE]

\* A constructor trampoline that runs the constructor for every call.
Constructor_Rejects_never(isConstructCall) == FALSE

\* if (!isConstructCall) { napi_throw_type_error(...); return; }
Constructor_Rejects(isConstructCall) == ~isConstructCall

\* A constructor trampoline that goes on to napi_wrap after the catch clause.
Constructor_Wraps_always(user) == TRUE

\* The catch clause of the constructor trampoline returns: napi_wrap is
\* reached only when new T(callbackInfo) did not throw.
Constructor_Wraps(user) == ~user.threw

\* A napi_wrap that attaches nothing.
napi_wrap_nothing(instance) == PlainObject

\* napi_wrap(env, wrapper, instance, FinalizeCallback, nullptr, &ref): the
\* receiver carries the instance and its finalizer.
napi_wrap(instance) ==
    [state |-> "wrapped", instance |-> instance, reachable |-> TRUE]

\* The host calls the constructor trampoline of a class defined with the
\* data pointer data.  For a construct call the host has made the receiver,
\* object Len(objs) + 1.  napi_wrap returns the root `instance`; the
\* trampoline move-assigns Reference<Object>(env, ref) to the instance's
\* Reference<Object> base and the temporary is destroyed.
Constructor_Run(isConstructCall, data, b, uninit, wrapFails) ==
    /\ lastCall = NoWrapCall
    /\ isConstructCall => Len(objs) < NumObjects
    /\ LET desc == DefineClass(data)
           this == Len(objs) + 1
           instance == Len(insts) + 1
           callbackInfo == CallbackInfo_New(desc, IF isConstructCall THEN this ELSE 0)
           rejected == Constructor_Rejects(isConstructCall)
           user == UserCallback(HostInit, b)
           moved == Reference_MoveAssign(Reference_Default,
                                         Reference_FromRef("env1", instance, uninit))
           wraps == Constructor_Wraps(user)
           wrapped == wraps /\ ~wrapFails
           record == [kind |-> "ConstructorCallbackWrapper",
                      isConstructCall |-> isConstructCall, registered |-> data,
                      recv |-> callbackInfo._this, recvState |-> "plain",
                      behaviour |-> b.does,
                      userRan |-> ~rejected, threw |-> ~rejected /\ user.threw,
                      info |-> callbackInfo, instance |-> 0, result |-> <<>>,
                      ret |-> <<>>, created |-> 0, wrapCalls |-> 0,
                      args |-> IF rejected THEN NoWrapCall.args
                               ELSE CallbackInfo_Local(0, "none")]
       IN IF rejected
          THEN /\ host' = napi_throw_type_error(HostInit, ConstructorMsg)
               /\ lastCall' = record
               /\ UNCHANGED <<objs, insts>>
          ELSE /\ host' = IF user.threw THEN Trampoline_Catch(user.host, user.e)
                          ELSE IF wraps /\ wrapFails
                          THEN AbiFailure(user.host, "napi_generic_failure", NoMessage, FALSE)
                          ELSE user.host
               /\ insts' = IF user.threw THEN insts
                           ELSE IF wrapped
                           THEN Append(insts,
                                  [alive |-> TRUE, wrapper |-> callbackInfo._this,
                                   base |-> moved.dst, deletes |-> 0,
                                   rootDeletes |->
                                       Cardinality(Reference_Dtor_Deletes(moved.src))])
                           ELSE Append(insts,
                                  [alive |-> TRUE, wrapper |-> callbackInfo._this,
                                   base |-> Reference_Default, deletes |-> 0,
                                   rootDeletes |-> 0])
               /\ objs' = LET attached == IF wrapped
                                          THEN napi_wrap(IF user.threw THEN 0 ELSE instance)
                                          ELSE PlainObject
                          IN IF isConstructCall THEN Append(objs, attached) ELSE objs
               /\ lastCall' =
                    [record EXCEPT
                        !.instance = IF user.threw THEN 0 ELSE instance,
                        !.created = Len(insts') - Len(insts),
                        !.wrapCalls = IF wraps THEN 1 ELSE 0,
                        !.ret = IF wrapped THEN <<callbackInfo._this>> ELSE <<>>]
    /\ UNCHANGED <<errVars, crashed, asyncVars, trampVars, refVars, metas, defs>>

\* A construct call or a plain call of a class, with a napi_wrap that works.
Construct(isConstructCall, data, b, uninit) ==
    Constructor_Run(isConstructCall, data, b, uninit, FALSE)

\* A construct call in which the native constructor returns and napi_wrap
\* then fails: if (status != napi_ok) return.
ConstructWrapFails(data, b) ==
    /\ b.does = "returns"
    /\ Constructor_Run(TRUE, data, b, FALSE, TRUE)

\* User code calls T::Unwrap on object o (0: an object no constructor call
\* made), possibly through a handle to an object since collected.
UserUnwrap(o) ==
    /\ lastCall = NoWrapCall
    /\ o \in 0..Len(objs)
    /\ LET unwrap == ObjectWrap_Unwrap(HostInit, objs, o)
       IN /\ host' = unwrap.host
          /\ lastCall' = [NoWrapCall EXCEPT !.kind = "Unwrap", !.recv = o,
                                            !.recvState = ObjectState(objs, o),
                                            !.threw = unwrap.threw,
                                            !.instance = unwrap.instance]
    /\ UNCHANGED <<errVars, crashed, asyncVars, trampVars, refVars, metas, defs, objs, insts>>

\* Host code drops its last reference to object o.
Release(o) ==
    /\ lastCall = NoWrapCall
    /\ o \in 1..Len(objs)
    /\ objs[o].reachable
    /\ objs' = [objs EXCEPT ![o].reachable = FALSE]
    /\ UNCHANGED <<errVars, host, crashed, asyncVars, trampVars, refVars, metas, defs, insts, lastCall>>

\* A finalizer that leaves the instance allocated.
FinalizeCallback_leak(is, i) == is

\* ObjectWrap<T>::FinalizeCallback: delete instance.  ~T runs
\* ~Reference<Object> on the instance's base, which deletes the root that
\* napi_wrap returned.
FinalizeCallback(is, i) ==
    [is EXCEPT ![i].alive = FALSE,
               ![i].deletes = @ + 1,
               ![i].rootDeletes = @ + Cardinality(Reference_Dtor_Deletes(is[i].base)),
               ![i].base._ref = 0]

\* The host collects the unreachable object o and runs the finalizer that
\* napi_wrap registered for it, if any.
Collect(o) ==
    /\ lastCall = NoWrapCall
    /\ o \in 1..Len(objs)
    /\ ~objs[o].reachable
    /\ objs[o].state # "collected"
    /\ objs' = [objs EXCEPT ![o].state = "collected"]
    /\ insts' = IF objs[o].state = "wrapped"
                THEN FinalizeCallback(insts, objs[o].instance) ELSE insts
    /\ UNCHANGED <<errVars, host, crashed, asyncVars, trampVars, refVars, metas, defs, lastCall>>

\* The call into the layer has returned; the host takes the return value or
\* the pending exception and runs on.
HostReturns ==
    /\ lastCall # NoWrapCall
    /\ lastCall' = NoWrapCall
    /\ host' = HostInit
    /\ UNCHANGED <<errVars, crashed, asyncVars, trampVars, refVars, metas, defs, objs, insts>>

WrapNext ==
    \/ \E kind \in ValueTrampolines \cup VoidTrampolines, data \in UserData,
          recv \in 0..NumObjects :
          \E b \in Behaviours(kind) : Invoke(kind, data, recv, b)
    \/ \E isConstructCall \in BOOLEAN, data \in UserData, uninit \in BOOLEAN :
          \E b \in Behaviours("ConstructorCallbackWrapper") :
              Construct(isConstructCall, data, b, uninit)
    \/ \E o \in 0..NumObjects : UserUnwrap(o)
    \/ \E o \in 1..NumObjects : Release(o)
    \/ \E o \in 1..NumObjects : Collect(o)
    \/ HostReturns

WrapSpec == Init /\ [][WrapNext]_vars

\* The classes are instantiated, their objects released and collected, and
\* napi_wrap may fail.
OwnNext ==
    \/ \E isConstructCall \in BOOLEAN, data \in UserData, uninit \in BOOLEAN :
          \E b \in Behaviours("ConstructorCallbackWrapper") :
              Construct(isConstructCall, data, b, uninit)
    \/ \E data \in UserData :
          \E b \in Behaviours("ConstructorCallbackWrapper") : ConstructWrapFails(data, b)
    \/ \E o \in 1..NumObjects : Release(o)
    \/ \E o \in 1..NumObjects : Collect(o)
    \/ HostReturns

OwnSpec == Init /\ [][OwnNext]_vars

\* The host calls registered functions, methods and accessors with argument
\* lists of every length, and the ABI may fail while the call is set up.
ArgsNext ==
    \/ \E kind \in ValueTrampolines \cup VoidTrampolines, data \in UserData,
          argc \in 0..MaxArgs, i \in 0..Len(CallbackInfo_AbiCalls) :
          \E b \in Behaviours(kind) :
              InvokeArgs(kind, data, 0, argc,
                         IF i = 0 THEN "none" ELSE CallbackInfo_AbiCalls[i], b)
    \/ HostReturns

ArgsSpec == Init /\ [][ArgsNext]_vars

\* CallbackInfo::operator [](int index): index < _argc ? Value(_env,
\* _argv[index]) : Env().Undefined(), a comparison of two ints (Length()
\* returns _argc as an int).  _argv[i] for 0 <= i < _argc is the i-th argument
\* of the call; any other element lies outside the vector (and _argv itself
\* is not set when _argc is 0), and reading it is undefined: junk is what
\* the read yields.
CallbackInfo_Index(args, index, junk) ==
    IF index < args._argc
    THEN IF index >= 0
         THEN [value |-> <<"arg", index>>, outside |-> FALSE]
         ELSE [value |-> junk, outside |-> TRUE]
    ELSE [value |-> <<"undefined">>, outside |-> FALSE]

Indexes == (0 - 2)..(MaxArgs + 1)
JunkValues == {<<"undefined">>, <<"junk">>, <<"arg", 0>>}

\* The host calls a registered function with argc arguments; the callback
\* reads info[index] and returns it.
InvokeIndex(argc, index, junk) ==
    /\ lastCall = NoWrapCall
    /\ LET args == CallbackInfo_Ctor(argc, "none")
           read == CallbackInfo_Index(args, index, junk)
       IN lastCall' = [kind |-> "operator[]", args |-> CallbackInfo_Dtor(args),
                       index |-> index, read |-> read, ret |-> <<read.value>>]
    /\ UNCHANGED <<errVars, host, crashed, asyncVars, trampVars, refVars, metas, defs,
                   objs, insts>>

IndexNext ==
    \/ \E argc \in 0..MaxArgs, index \in Indexes, junk \in JunkValues :
          InvokeIndex(argc, index, junk)
    \/ HostReturns

IndexSpec == Init /\ [][IndexNext]_vars

\* ------------------------------------------------------------------------
\* Registration: Function::New, the property descriptors of a class and
\* DefineClass.  metas[i] is the i-th callback metadata record allocated by
\* `new CallbackData`, with the function or class that uses it (0: a
\* descriptor not yet passed to DefineClass); defs[k] is the k-th function
\* or class the host made.
\* ------------------------------------------------------------------------
\* napi_property_attributes as the set of its flags; a | b is the union.
AttributeFlags == {"napi_read_only", "napi_dont_enum", "napi_static_property"}

StaticProperties == {"StaticMethod_void", "StaticMethod", "StaticAccessor", "StaticValue"}

InstanceProperties ==
    {"InstanceMethod_void", "InstanceMethod", "InstanceAccessor", "InstanceValue"}

Accessors == {"StaticAccessor", "InstanceAccessor"}

\* A registration that hands the flags on as they are.
ClassProperty_Attributes_plain(how, attributes) == attributes

\* desc.attributes as the eight registration functions set it
ClassProperty_Attributes(how, attributes) ==
    IF how \in StaticProperties
    THEN attributes \cup {"napi_static_property"}
    ELSE attributes

\* ObjectWrap<T>::StaticMethod (both overloads), StaticAccessor,
\* InstanceMethod (both overloads), InstanceAccessor, StaticValue,
\* InstanceValue: the napi_property_descriptor returned.  getter and setter
\* tell whether the accessor's callbacks are non-null.
ClassProperty(how, getter, setter, attributes, data) ==
    [method |->
        CASE how = "StaticMethod_void" -> "StaticVoidMethodCallbackWrapper"
          [] how = "StaticMethod" -> "StaticMethodCallbackWrapper"
          [] how = "InstanceMethod_void" -> "InstanceVoidMethodCallbackWrapper"
          [] how = "InstanceMethod" -> "InstanceMethodCallbackWrapper"
          [] OTHER -> "nullptr",
     getter |->
        CASE how = "StaticAccessor" /\ getter -> "StaticGetterCallbackWrapper"
          [] how = "InstanceAccessor" -> "InstanceGetterCallbackWrapper"
          [] OTHER -> "nullptr",
     setter |->
        CASE how = "StaticAccessor" /\ setter -> "StaticSetterCallbackWrapper"
          [] how = "InstanceAccessor" -> "InstanceSetterCallbackWrapper"
          [] OTHER -> "nullptr",
     value |-> IF how \in {"StaticValue", "InstanceValue"} THEN "value" ELSE "nullptr",
     data |-> IF how \in {"StaticValue", "InstanceValue"}
              THEN [to |-> "nullptr"] ELSE CallbackData_New("cb", data),
     attributes |-> ClassProperty_Attributes(how, attributes)]

\* User code builds one property descriptor of a class.
Class_Property(how, getter, setter, attributes, data) ==
    /\ lastCall = NoWrapCall
    /\ LET desc == ClassProperty(how, getter, setter, attributes, data)
       IN /\ IF desc.data.to = "CallbackData"
             THEN /\ Len(metas) < MaxMetas
                  /\ metas' = Append(metas, [alive |-> TRUE, owner |-> 0])
             ELSE UNCHANGED metas
          /\ lastCall' = [kind |-> "ClassProperty", how |-> how,
                          getter |-> getter /\ how \in Accessors,
                          setter |-> setter /\ how \in Accessors,
                          attributes |-> attributes, desc |-> desc]
    /\ UNCHANGED <<errVars, host, crashed, asyncVars, trampVars, refVars, objs, insts, defs>>

\* Function::New(env, cb, utf8name, data), both overloads
Function_New(kind, data) ==
    /\ lastCall = NoWrapCall
    /\ kind \in FunctionTrampolines
    /\ Len(metas) < MaxMetas
    /\ Len(defs) < MaxDefs
    /\ metas' = Append(metas, [alive |-> TRUE, owner |-> Len(defs) + 1])
    /\ defs' = Append(defs, [kind |-> "function", entry |-> Register(kind, data),
                             released |-> FALSE])
    /\ UNCHANGED <<errVars, host, crashed, asyncVars, trampVars, refVars, objs, insts,
                   lastCall>>

\* ObjectWrap<T>::DefineClass(env, utf8name, properties, data) with the
\* descriptors built since the last class was defined
Class_Define(data) ==
    /\ lastCall = NoWrapCall
    /\ Len(defs) < MaxDefs
    /\ metas' = [i \in 1..Len(metas) |->
                    IF metas[i].owner = 0
                    THEN [metas[i] EXCEPT !.owner = Len(defs) + 1] ELSE metas[i]]
    /\ defs' = Append(defs, [kind |-> "class", entry |-> DefineClass(data),
                             released |-> FALSE])
    /\ UNCHANGED <<errVars, host, crashed, asyncVars, trampVars, refVars, objs, insts,
                   lastCall>>

\* The host releases function or class k.  Function::New and DefineClass
\* register nothing that runs then, and no code of this layer deletes a
\* CallbackData record.
Host_Release(k) ==
    /\ lastCall = NoWrapCall
    /\ k \in 1..Len(defs)
    /\ ~defs[k].released
    /\ defs' = [defs EXCEPT ![k].released = TRUE]
    /\ UNCHANGED <<errVars, host, crashed, asyncVars, trampVars, refVars, objs, insts,
                   lastCall, metas>>

ClassNext ==
    \/ \E how \in StaticProperties \cup InstanceProperties, getter, setter \in BOOLEAN,
          attributes \in SUBSET AttributeFlags, data \in UserData :
          Class_Property(how, getter, setter, attributes, data)
    \/ \E kind \in FunctionTrampolines, data \in UserData : Function_New(kind, data)
    \/ \E data \in UserData : Class_Define(data)
    \/ \E k \in 1..MaxDefs : Host_Release(k)
    \/ HostReturns

ClassSpec == Init /\ [][ClassNext]_vars

\* The properties of a class are built and the host calls them, on receivers
\* that no constructor call of the class made.
DescNext ==
    \/ \E how \in StaticProperties \cup InstanceProperties, getter, setter \in BOOLEAN,
          attributes \in SUBSET AttributeFlags, data \in UserData :
          Class_Property(how, getter, setter, attributes, data)
    \/ \E kind \in ValueTrampolines \cup VoidTrampolines, data \in UserData :
          \E b \in Behaviours(kind) : Invoke(kind, data, 0, b)
    \/ HostReturns

DescSpec == Init /\ [][DescNext]_vars

\* ------------------------------------------------------------------------
\* The calls this layer makes to status-returning ABI entry points, each
\* named by the line of src/napi-inl.h it starts on, by what the code does
\* with a failing status:
\*   throws    : if (status != napi_ok) throw Error::New(...)
\*   returns   : if (status != napi_ok) return;   (the trampolines, after
\*               their try block and in front of it)
\*   asserts   : assert(status == napi_ok), nothing in a release build
\*   continues : the status is not read, or is replaced by a default
\*               (Env::IsExceptionPending, Error::New(napi_env),
\*               ThrowAsJavaScriptException, ~Reference, the rejection of a
\*               plain constructor call, ~HandleScope,
\*               ~EscapableHandleScope)
\* ------------------------------------------------------------------------
AbiSites ==
    [throws |->
        {59, 66, 73, 109, 124, 159, 170, 181, 200, 212, 219, 226, 233,
         244, 261, 272, 305, 312, 319, 330, 341, 348, 369, 374, 381,
         386, 397, 422, 429, 436, 447, 454, 461, 471, 476, 481, 519,
         526, 532, 537, 558, 564, 570, 577, 590, 606, 617, 624, 637,
         649, 664, 708, 739, 750, 762, 820, 834, 877, 891, 931, 939,
         956, 965, 973, 981, 1035, 1044, 1053, 1093, 1183, 1235, 1312,
         1320, 1328, 1336, 1349, 1603, 1606, 1620, 1624, 1672, 1684,
         1699, 2064, 2089, 2107},
     returns |-> {1015, 1848, 1871, 1877, 1917, 1939, 2001, 2025},
     asserts |-> {1116, 1129, 1132},
     continues |-> {80, 1107, 1169, 1255, 1852, 2069, 2094}]

\* The ABI call at `site` fails with status `code`, leaving `message` in the
\* last-error info: what its caller does next, and the native Error thrown
\* if one is.
AbiCallFails(site, code, message) ==
    /\ lastCall = NoWrapCall
    /\ LET failed == AbiFailure(HostInit, code, message, FALSE)
           thrown == Error_New_env(failed)
           does == CHOOSE d \in DOMAIN AbiSites : site \in AbiSites[d]
       IN /\ host' = IF does = "throws" THEN thrown.host ELSE failed
          /\ lastCall' = [kind |-> "AbiCall", site |-> site, code |-> code,
                          does |-> does, threw |-> does = "throws",
                          e |-> IF does = "throws" THEN thrown.value ELSE 0]
    /\ UNCHANGED <<errVars, crashed, asyncVars, trampVars, refVars, metas, defs, objs, insts>>

StatusNext ==
    \/ \E d \in DOMAIN AbiSites : \E site \in AbiSites[d] :
          \E code \in StatusCodes, message \in AbiMessages :
              AbiCallFails(site, code, message)
    \/ HostReturns

StatusSpec == Init /\ [][StatusNext]_vars

\* ------------------------------------------------------------------------
\* Reference<T> objects over the host's roots.  roots[k] is the napi_ref
\* number k: the value it refers to, its count (0: weak) and how many times
\* napi_delete_reference was called on it.  refs[r] is the storage of
\* Reference<T> object r: not constructed, live or destroyed, and its fields.
\* ------------------------------------------------------------------------
HostValues == {"a"}
Handles == HostValues \cup {"nullptr"}      \* a T: a value, or the empty handle
RefCounts == {0, 1}

\* napi_create_reference(env, value, initialRefcount, &ref)
napi_create_reference(rs, value, count) ==
    Append(rs, [value |-> value, count |-> count, deletes |-> 0])

\* napi_delete_reference(env, ref): the host frees the root, which refers to
\* nothing from then on.
napi_delete_reference(rs, k) ==
    [rs EXCEPT ![k] = [value |-> "nullptr", count |-> 0, deletes |-> rs[k].deletes + 1]]

\* napi_get_reference_value(env, ref, &value): fails for a reference that
\* does not exist; yields nullptr for a referent that was collected.
napi_get_reference_value(rs, col, k) ==
    IF k \in 1..Len(rs) /\ rs[k].deletes = 0
    THEN [ok |-> TRUE, value |-> IF rs[k].value \in col THEN "nullptr" ELSE rs[k].value]
    ELSE [ok |-> FALSE, value |-> "nullptr"]

\* Reference<T>::New(value, initialRefcount); Weak and Persistent call it
\* with count 0 and 1.
Reference_New(rs, env, value, initialRefcount, uninit) ==
    IF value = "nullptr"
    THEN [obj |-> Reference_FromRef(env, 0, uninit), roots |-> rs]
    ELSE [obj |-> Reference_FromRef(env, Len(rs) + 1, uninit),
          roots |-> napi_create_reference(rs, value, initialRefcount)]

\* A Reset() that deletes the root and keeps the pointer to it.
Reference_Reset_keeps(this, rs) ==
    IF this._ref # 0
    THEN [obj |-> this, roots |-> napi_delete_reference(rs, this._ref)]
    ELSE [obj |-> this, roots |-> rs]

\* Reference<T>::Reset()
Reference_Reset(this, rs) ==
    IF this._ref # 0
    THEN [obj |-> [this EXCEPT !._ref = 0],
          roots |-> napi_delete_reference(rs, this._ref)]
    ELSE [obj |-> this, roots |-> rs]

\* Reference<T>::Reset(const T& value, int refcount)
Reference_ResetValue(this, rs, env, value, refcount) ==
    LET cleared == Reference_Reset(this, rs)
        withEnv == [cleared.obj EXCEPT !._env = env]
    IN IF value # "nullptr"
       THEN [obj |-> [withEnv EXCEPT !._ref = Len(cleared.roots) + 1],
             roots |-> napi_create_reference(cleared.roots, value, refcount)]
       ELSE [obj |-> withEnv, roots |-> cleared.roots]

\* A Reset() that forgets its root before it tests the status.
Reference_Reset_Status_nullsFirst(this, rs, fails) ==
    IF this._ref # 0 /\ fails = "napi_delete_reference"
    THEN [obj |-> [this EXCEPT !._ref = 0], roots |-> rs, threw |-> TRUE]
    ELSE [obj |-> Reference_Reset(this, rs).obj,
          roots |-> Reference_Reset(this, rs).roots, threw |-> FALSE]

\* Reference<T>::Reset() with the ABI call that fails as an input ("none":
\* none does).  When napi_delete_reference fails the root stays as it is and
\* if (status != napi_ok) throw Error::New(_env) leaves before _ref = nullptr.
Reference_Reset_Status(this, rs, fails) ==
    IF this._ref # 0 /\ fails = "napi_delete_reference"
    THEN [obj |-> this, roots |-> rs, threw |-> TRUE]
    ELSE [obj |-> Reference_Reset(this, rs).obj,
          roots |-> Reference_Reset(this, rs).roots, threw |-> FALSE]

\* Reference<T>::Reset(const T& value, int refcount) with the ABI call that
\* fails as an input.  A napi_create_reference that fails makes no root and
\* does not write to _ref.
Reference_ResetValue_Status(this, rs, env, value, refcount, fails) ==
    LET cleared == Reference_Reset_Status(this, rs, fails)
        withEnv == [cleared.obj EXCEPT !._env = env]
    IN IF cleared.threw THEN cleared
       ELSE IF value # "nullptr" /\ fails = "napi_create_reference"
       THEN [obj |-> withEnv, roots |-> cleared.roots, threw |-> TRUE]
       ELSE IF value # "nullptr"
       THEN [obj |-> [withEnv EXCEPT !._ref = Len(cleared.roots) + 1],
             roots |-> napi_create_reference(cleared.roots, value, refcount),
             threw |-> FALSE]
       ELSE [obj |-> withEnv, roots |-> cleared.roots, threw |-> FALSE]

\* A Value() without the test for an empty reference.
Reference_Value_unchecked(this, rs, col) ==
    LET got == napi_get_reference_value(rs, col, this._ref)
    IN [threw |-> ~got.ok, value |-> got.value]

\* Reference<T>::Value(): the handle returned, or threw when the ABI call
\* fails and Error::New(_env) is thrown.
Reference_Value(this, rs, col) ==
    IF this._ref = 0
    THEN [threw |-> FALSE, value |-> "nullptr"]
    ELSE LET got == napi_get_reference_value(rs, col, this._ref)
         IN [threw |-> ~got.ok, value |-> got.value]

\* Reference<T>::~Reference applied to the roots
Reference_Dtor(this, rs) ==
    IF Reference_Dtor_Deletes(this) = {} THEN rs
    ELSE napi_delete_reference(rs, this._ref)

\* Reference<T>::SuppressDestruct
Reference_SuppressDestruct(this) == [this EXCEPT !._suppressDestruct = TRUE]

\* napi_reference_ref(env, ref, &result): fails for a reference that does
\* not exist; a root whose referent was collected stays at count 0.
napi_reference_ref(rs, col, k) ==
    IF k \in 1..Len(rs) /\ rs[k].deletes = 0
    THEN IF rs[k].value \in col
         THEN [ok |-> TRUE, result |-> 0, roots |-> rs]
         ELSE [ok |-> TRUE, result |-> rs[k].count + 1,
               roots |-> [rs EXCEPT ![k].count = @ + 1]]
    ELSE [ok |-> FALSE, result |-> 0, roots |-> rs]

\* napi_reference_unref(env, ref, &result): fails for a reference that does
\* not exist and for a count that is already 0.
napi_reference_unref(rs, k) ==
    IF k \in 1..Len(rs) /\ rs[k].deletes = 0 /\ rs[k].count > 0
    THEN [ok |-> TRUE, result |-> rs[k].count - 1,
          roots |-> [rs EXCEPT ![k].count = @ - 1]]
    ELSE [ok |-> FALSE, result |-> 0, roots |-> rs]

\* Reference<T>::Ref(): the count returned, or threw when the ABI call fails
\* and Error::New(_env) is thrown.
Reference_Ref(this, rs, col) ==
    LET done == napi_reference_ref(rs, col, this._ref)
    IN [threw |-> ~done.ok, result |-> done.result, roots |-> done.roots]

\* An Unref() that returns the count it found.
Reference_Unref_stale(this, rs) ==
    LET done == napi_reference_unref(rs, this._ref)
    IN [threw |-> ~done.ok,
        result |-> IF done.ok THEN done.result + 1 ELSE 0, roots |-> done.roots]

\* Reference<T>::Unref()
Reference_Unref(this, rs) ==
    LET done == napi_reference_unref(rs, this._ref)
    IN [threw |-> ~done.ok, result |-> done.result, roots |-> done.roots]

\* Weak(value)
Weak(rs, env, value, uninit) == Reference_New(rs, env, value, 0, uninit)

\* A Persistent(value) that asks for count 0.
Persistent_weak(rs, env, value, uninit) == Reference_New(rs, env, value, 0, uninit)

\* Persistent(value)
Persistent(rs, env, value, uninit) == Reference_New(rs, env, value, 1, uninit)

\* Reference<T> objects are constructed in the order of their storage.
NextStorage(r) ==
    /\ refs[r].state = "none"
    /\ \A q \in Refs : q < r => refs[q].state # "none"

\* Reference<T> x = Reference<T>::New(value, initialRefcount), in storage r
Ref_New(r, env, value, initialRefcount, uninit) ==
    /\ lastOp = NoRefOp
    /\ NextStorage(r)
    /\ value \notin collected
    /\ value # "nullptr" => Len(roots) < MaxRoots
    /\ LET made == Reference_New(roots, env, value, initialRefcount, uninit)
       IN /\ refs' = [refs EXCEPT ![r] = [state |-> "live", obj |-> made.obj]]
          /\ roots' = made.roots
    /\ UNCHANGED <<errVars, host, crashed, asyncVars, trampVars, wrapVars, collected, lastOp>>

\* Reference<T> x; in storage r
Ref_Default(r) ==
    /\ lastOp = NoRefOp
    /\ NextStorage(r)
    /\ refs' = [refs EXCEPT ![r] = [state |-> "live", obj |-> Reference_Default]]
    /\ UNCHANGED <<errVars, host, crashed, asyncVars, trampVars, wrapVars, roots, collected, lastOp>>

\* Reference<T> dst(std::move(src))
Ref_MoveCtor(dst, src, uninit) ==
    /\ lastOp = NoRefOp
    /\ NextStorage(dst)
    /\ refs[src].state = "live"
    /\ LET moved == Reference_MoveCtor(refs[src].obj, uninit)
       IN /\ refs' = [refs EXCEPT ![dst] = [state |-> "live", obj |-> moved.dst],
                                  ![src].obj = moved.src]
          /\ UNCHANGED roots
    /\ UNCHANGED <<errVars, host, crashed, asyncVars, trampVars, wrapVars, collected, lastOp>>

\* dst = std::move(src)
Ref_MoveAssign(dst, src) ==
    /\ lastOp = NoRefOp
    /\ dst # src
    /\ refs[dst].state = "live"
    /\ refs[src].state = "live"
    /\ LET moved == Reference_MoveAssign(refs[dst].obj, refs[src].obj)
       IN /\ refs' = [refs EXCEPT ![dst].obj = moved.dst, ![src].obj = moved.src]
          /\ UNCHANGED roots
    /\ UNCHANGED <<errVars, host, crashed, asyncVars, trampVars, wrapVars, collected, lastOp>>

\* x.Reset()
Ref_Reset(r) ==
    /\ lastOp = NoRefOp
    /\ refs[r].state = "live"
    /\ LET done == Reference_Reset(refs[r].obj, roots)
       IN /\ refs' = [refs EXCEPT ![r].obj = done.obj]
          /\ roots' = done.roots
    /\ UNCHANGED <<errVars, host, crashed, asyncVars, trampVars, wrapVars, collected, lastOp>>

\* x.Reset(value, refcount)
Ref_ResetValue(r, env, value, refcount) ==
    /\ lastOp = NoRefOp
    /\ refs[r].state = "live"
    /\ value \notin collected
    /\ value # "nullptr" => Len(roots) < MaxRoots
    /\ LET done == Reference_ResetValue(refs[r].obj, roots, env, value, refcount)
       IN /\ refs' = [refs EXCEPT ![r].obj = done.obj]
          /\ roots' = done.roots
    /\ UNCHANGED <<errVars, host, crashed, asyncVars, trampVars, wrapVars, collected, lastOp>>

\* x.Value()
Ref_Value(r) ==
    /\ \/ lastOp = NoRefOp
       \/ lastOp.op = "Ref" /\ lastOp.prior = <<"Unref">> /\ lastOp.r = r
    /\ refs[r].state = "live"
    /\ LET got == Reference_Value(refs[r].obj, roots, collected)
       IN lastOp' = [NoRefOp EXCEPT !.op = "Value", !.r = r, !.threw = got.threw,
                                    !.value = got.value,
                                    !.prior = IF lastOp = NoRefOp THEN <<>>
                                              ELSE Append(lastOp.prior, lastOp.op)]
    /\ UNCHANGED <<errVars, host, crashed, asyncVars, trampVars, wrapVars, refs, roots,
                   collected>>

\* x.Ref(), from user code or right after an x.Unref() that found count 1
Ref_Ref(r) ==
    /\ \/ lastOp = NoRefOp
       \/ /\ lastOp.op = "Unref" /\ lastOp.r = r
          /\ ~lastOp.threw /\ lastOp.from = 1
    /\ refs[r].state = "live"
    /\ LET this == refs[r].obj
           from == IF this._ref \in 1..Len(roots) THEN roots[this._ref].count ELSE 0
           done == Reference_Ref(this, roots, collected)
       IN /\ from < MaxCount
          /\ roots' = done.roots
          /\ lastOp' = [NoRefOp EXCEPT !.op = "Ref", !.r = r, !.threw = done.threw,
                                       !.from = from, !.count = done.result,
                                       !.prior = IF lastOp = NoRefOp THEN <<>>
                                                 ELSE <<lastOp.op>>]
    /\ UNCHANGED <<errVars, host, crashed, asyncVars, trampVars, wrapVars, refs, collected>>

\* x.Unref()
Ref_Unref(r) ==
    /\ lastOp = NoRefOp
    /\ refs[r].state = "live"
    /\ LET this == refs[r].obj
           from == IF this._ref \in 1..Len(roots) THEN roots[this._ref].count ELSE 0
           done == Reference_Unref(this, roots)
       IN /\ roots' = done.roots
          /\ lastOp' = [NoRefOp EXCEPT !.op = "Unref", !.r = r, !.threw = done.threw,
                                       !.from = from, !.count = done.result]
    /\ UNCHANGED <<errVars, host, crashed, asyncVars, trampVars, wrapVars, refs, collected>>

\* x.SuppressDestruct()
Ref_SuppressDestruct(r) ==
    /\ lastOp = NoRefOp
    /\ refs[r].state = "live"
    /\ refs' = [refs EXCEPT ![r].obj = Reference_SuppressDestruct(@)]
    /\ UNCHANGED <<errVars, host, crashed, asyncVars, trampVars, wrapVars, roots, collected,
                   lastOp>>

\* Reference<T> x = Persistent(value), in storage r
Ref_Persistent(r, env, value, uninit) ==
    /\ lastOp = NoRefOp
    /\ NextStorage(r)
    /\ value \notin collected
    /\ value # "nullptr" => Len(roots) < MaxRoots
    /\ LET made == Persistent(roots, env, value, uninit)
       IN /\ refs' = [refs EXCEPT ![r] = [state |-> "live", obj |-> made.obj]]
          /\ roots' = made.roots
    /\ UNCHANGED <<errVars, host, crashed, asyncVars, trampVars, wrapVars, collected, lastOp>>

\* Reference<T> x = Weak(value), in storage r
Ref_Weak(r, env, value, uninit) ==
    /\ lastOp = NoRefOp
    /\ NextStorage(r)
    /\ value \notin collected
    /\ value # "nullptr" => Len(roots) < MaxRoots
    /\ LET made == Weak(roots, env, value, uninit)
       IN /\ refs' = [refs EXCEPT ![r] = [state |-> "live", obj |-> made.obj]]
          /\ roots' = made.roots
    /\ UNCHANGED <<errVars, host, crashed, asyncVars, trampVars, wrapVars, collected, lastOp>>

\* The scope user code opens around its use of references: HandleScope scope(env)
UserScope(depth) == <<depth, "user">>

Ref_ScopeOpen ==
    /\ lastOp = NoRefOp
    /\ Len(host.scopes) < MaxScopes
    /\ host' = HandleScope_Open(host, UserScope(Len(host.scopes) + 1))
    /\ UNCHANGED <<errVars, crashed, asyncVars, trampVars, wrapVars, refVars>>

\* ... and its end: ~HandleScope
Ref_ScopeClose ==
    /\ lastOp = NoRefOp
    /\ Len(host.scopes) > 0
    /\ host' = HandleScope_Close(host, host.scopes[Len(host.scopes)])
    /\ UNCHANGED <<errVars, crashed, asyncVars, trampVars, wrapVars, refVars>>

\* x goes out of scope or is deleted
Ref_Destroy(r) ==
    /\ lastOp = NoRefOp
    /\ refs[r].state = "live"
    /\ refs' = [refs EXCEPT ![r] = [NoRef EXCEPT !.state = "destroyed"]]
    /\ roots' = Reference_Dtor(refs[r].obj, roots)
    /\ UNCHANGED <<errVars, host, crashed, asyncVars, trampVars, wrapVars, collected, lastOp>>

\* The host's collector reclaims value v, which no strong root holds.
CollectValue(v) ==
    /\ lastOp = NoRefOp
    /\ v \notin collected
    /\ \A k \in 1..Len(roots) :
          (roots[k].value = v /\ roots[k].deletes = 0) => roots[k].count = 0
    /\ collected' = collected \cup {v}
    /\ UNCHANGED <<errVars, host, crashed, asyncVars, trampVars, wrapVars, refs, roots, lastOp>>

\* The call has returned and user code runs on: it has caught the native
\* Error, if one was thrown, and dropped what the call made in the host.
RefResume ==
    /\ lastOp # NoRefOp
    /\ lastOp' = NoRefOp
    /\ host' = [HostInit EXCEPT !.scopes = host.scopes, !.escaped = host.escaped]
    /\ UNCHANGED <<errVars, crashed, asyncVars, trampVars, wrapVars, refs, roots, collected>>

RefNext ==
    \/ \E r \in Refs, env \in Envs, value \in Handles, count \in RefCounts,
          uninit \in BOOLEAN : Ref_New(r, env, value, count, uninit)
    \/ \E r \in Refs : Ref_Default(r)
    \/ \E dst, src \in Refs, uninit \in BOOLEAN : Ref_MoveCtor(dst, src, uninit)
    \/ \E dst, src \in Refs : Ref_MoveAssign(dst, src)
    \/ \E r \in Refs : Ref_Reset(r)
    \/ \E r \in Refs, env \in Envs, value \in Handles, count \in RefCounts :
          Ref_ResetValue(r, env, value, count)
    \/ \E r \in Refs : Ref_Value(r)
    \/ \E r \in Refs : Ref_SuppressDestruct(r)
    \/ \E r \in Refs : Ref_Destroy(r)
    \/ \E v \in HostValues : CollectValue(v)
    \/ RefResume

RefSpec == Init /\ [][RefNext]_vars

\* x.Reset() in which napi_delete_reference fails
Ref_ResetFails(r) ==
    /\ lastOp = NoRefOp
    /\ refs[r].state = "live"
    /\ ~Reference_IsEmpty(refs[r].obj)
    /\ LET done == Reference_Reset_Status(refs[r].obj, roots, "napi_delete_reference")
       IN /\ refs' = [refs EXCEPT ![r].obj = done.obj]
          /\ roots' = done.roots
          /\ lastOp' = [op |-> "Reset", r |-> r, threw |-> done.threw,
                        fails |-> "napi_delete_reference"]
    /\ UNCHANGED <<errVars, host, crashed, asyncVars, trampVars, wrapVars, collected>>

\* x.Reset(value, refcount) in which napi_delete_reference or
\* napi_create_reference fails
Ref_ResetValueFails(r, env, value, refcount, fails) ==
    /\ lastOp = NoRefOp
    /\ refs[r].state = "live"
    /\ value \notin collected
    /\ fails = "napi_delete_reference" => ~Reference_IsEmpty(refs[r].obj)
    /\ fails = "napi_create_reference" => value # "nullptr"
    /\ LET done == Reference_ResetValue_Status(refs[r].obj, roots, env, value,
                                               refcount, fails)
       IN /\ refs' = [refs EXCEPT ![r].obj = done.obj]
          /\ roots' = done.roots
          /\ lastOp' = [op |-> "ResetValue", r |-> r, threw |-> done.threw,
                        fails |-> fails]
    /\ UNCHANGED <<errVars, host, crashed, asyncVars, trampVars, wrapVars, collected>>

\* User code makes, resets and destroys references while the ABI calls of
\* Reset may fail.
FailNext ==
    \/ \E r \in Refs, env \in Envs, value \in Handles, count \in RefCounts,
          uninit \in BOOLEAN : Ref_New(r, env, value, count, uninit)
    \/ \E r \in Refs : Ref_Reset(r)
    \/ \E r \in Refs, env \in Envs, value \in Handles, count \in RefCounts :
          Ref_ResetValue(r, env, value, count)
    \/ \E r \in Refs : Ref_ResetFails(r)
    \/ \E r \in Refs, env \in Envs, value \in Handles, count \in RefCounts,
          fails \in {"napi_delete_reference", "napi_create_reference"} :
          Ref_ResetValueFails(r, env, value, count, fails)
    \/ \E r \in Refs : Ref_Destroy(r)
    \/ RefResume

FailSpec == Init /\ [][FailNext]_vars

\* User code that makes strong and weak references, adjusts their counts and
\* reads them, inside and outside handle scopes of its own, while the host's
\* collector runs.
CountNext ==
    \/ \E r \in Refs, env \in Envs, value \in Handles, uninit \in BOOLEAN :
          Ref_Persistent(r, env, value, uninit)
    \/ \E r \in Refs, env \in Envs, value \in Handles, uninit \in BOOLEAN :
          Ref_Weak(r, env, value, uninit)
    \/ \E r \in Refs : Ref_Ref(r)
    \/ \E r \in Refs : Ref_Unref(r)
    \/ \E r \in Refs : Ref_Value(r)
    \/ \E r \in Refs : Ref_Reset(r)
    \/ \E r \in Refs : Ref_Destroy(r)
    \/ Ref_ScopeOpen
    \/ Ref_ScopeClose
    \/ \E v \in HostValues : CollectValue(v)
    \/ RefResume

CountSpec == Init /\ [][CountNext]_vars

\* ------------------------------------------------------------------------
\* Handles and escapable scopes.  A handle is a host value together with the
\* scope that owns it; the scope the host opened around the running native
\* code is always open.
\* ------------------------------------------------------------------------
HostScope == <<0, "host">>
NullHandle == [value |-> "nullptr", scope |-> HostScope]

CurrentScope(h) == IF Len(h.scopes) = 0 THEN HostScope ELSE h.scopes[Len(h.scopes)]

ParentScope(h, scope) ==
    LET i == CHOOSE j \in 1..Len(h.scopes) : h.scopes[j] = scope
    IN IF i = 1 THEN HostScope ELSE h.scopes[i - 1]

HandleValid(h, handle) ==
    /\ handle.value # "nullptr"
    /\ handle.scope = HostScope \/ ScopeOpen(h, handle.scope)

\* napi_escape_handle(env, scope, escapee, &result): promotes the value to
\* the parent of the scope, once per scope; a second call fails.
napi_escape_handle(h, scope, escapee) ==
    IF scope \in h.escaped
    THEN [ok |-> FALSE, host |-> h, result |-> NullHandle]
    ELSE [ok |-> TRUE, host |-> [h EXCEPT !.escaped = @ \cup {scope}],
          result |-> [value |-> escapee.value, scope |-> ParentScope(h, scope)]]

\* An Escape that returns whatever the ABI call left, failed or not.
EscapableHandleScope_Escape_unchecked(h, scope, escapee) ==
    [host |-> napi_escape_handle(h, scope, escapee).host, threw |-> FALSE, e |-> 0,
     result |-> [value |-> escapee.value, scope |-> ParentScope(h, scope)]]

\* An Escape that hands back the handle it was given.
EscapableHandleScope_Escape_none(h, scope, escapee) ==
    [host |-> h, threw |-> FALSE, e |-> 0, result |-> escapee]

\* EscapableHandleScope::Escape
EscapableHandleScope_Escape(h, scope, escapee) ==
    LET done == napi_escape_handle(h, scope, escapee)
        made == Error_New_env(AbiFailure(done.host, "napi_escape_called_twice",
                                         NoMessage, FALSE))
    IN IF done.ok
       THEN [host |-> done.host, threw |-> FALSE, e |-> 0, result |-> done.result]
       ELSE [host |-> made.host, threw |-> TRUE, e |-> made.value,
             result |-> NullHandle]

\* The operations of ObjectReference, FunctionReference and Reference<T>
\* that open a scope of their own: with an EscapableHandleScope and an
\* Escape of their result, and with a HandleScope.
EscapingOps ==
    {"ObjectReference::Get", "FunctionReference::operator()", "FunctionReference::Call",
     "FunctionReference::MakeCallback", "FunctionReference::New"}

PlainOps == {"ObjectReference::Set", "Reference::operator=="}

\* What the host does with the property read, property write or call the
\* operation makes on the referent: it yields a value or host code throws.
PropValues == {"p1", "p2"}

Outcomes ==
    [does : {"returns"}, value : PropValues] \cup [does : {"throws"}, value : {"nullptr"}]

\* The expression inside the scope: Value().Get(name), Value().Set(name,
\* value), Value().Call(args), ..., Value().StrictEquals(other.Value()).
\* Value() throws when the ABI fails; the operation on the value fails for
\* an empty value and when host code throws, and throws Error::New(_env).
Reference_Op_Body(op, h, this, other, rs, col, o) ==
    LET v == Reference_Value(this, rs, col)
        w == Reference_Value(other, rs, col)
        invalid == Error_New_env(AbiFailure(h, "napi_invalid_arg", NoMessage, FALSE))
        thrown == Error_New_env(AbiFailure(h, "napi_pending_exception", NoMessage, TRUE))
        fails == [host |-> invalid.host, threw |-> TRUE, e |-> invalid.value,
                  value |-> "nullptr"]
    IN IF v.threw \/ v.value = "nullptr" THEN fails
       ELSE IF op = "Reference::operator=="
       THEN IF w.threw \/ w.value = "nullptr" THEN fails
            ELSE [host |-> h, threw |-> FALSE, e |-> 0,
                  value |-> IF v.value = w.value THEN "true" ELSE "false"]
       ELSE IF o.does = "throws"
       THEN [host |-> thrown.host, threw |-> TRUE, e |-> thrown.value,
             value |-> "nullptr"]
       ELSE [host |-> h, threw |-> FALSE, e |-> 0,
             value |-> IF op = "ObjectReference::Set" THEN "nullptr" ELSE o.value]

\* A scope object whose destructor runs on return only.
HandleScope_Unwind_returnOnly(h, scope, threw) ==
    IF threw THEN h ELSE HandleScope_Close(h, scope)

\* The local `scope` of an operation goes out of scope, by return or while
\* a native Error unwinds the stack: its destructor runs either way.
HandleScope_Unwind(h, scope, threw) == HandleScope_Close(h, scope)

\* One whole operation: EscapableHandleScope scope(_env) or HandleScope
\* scope(_env); the expression; scope.Escape(...) of its value where there
\* is one; the destructor of scope.  events lists the scopes the host saw
\* opened and closed, escapes counts the napi_escape_handle calls accepted.
Reference_Op(op, h, this, other, rs, col, o) ==
    LET id == <<Len(h.scopes) + 1, op>>
        h1 == HandleScope_Open(h, id)
        body == Reference_Op_Body(op, h1, this, other, rs, col, o)
        escaped == IF op \in EscapingOps /\ ~body.threw
                   THEN EscapableHandleScope_Escape(body.host, id,
                                                    [value |-> body.value, scope |-> id])
                   ELSE [host |-> body.host, threw |-> body.threw, e |-> body.e,
                         result |-> NullHandle]
        h2 == HandleScope_Unwind(escaped.host, id, escaped.threw)
    IN [host |-> h2, threw |-> escaped.threw, e |-> escaped.e,
        result |-> escaped.result, produced |-> body.value,
        escapes |-> IF id \in escaped.host.escaped THEN 1 ELSE 0,
        events |-> (IF h1.scopes # h.scopes THEN << <<"open", id>> >> ELSE <<>>)
                      \o (IF h2.scopes # escaped.host.scopes
                          THEN << <<"close", id>> >> ELSE <<>>)]

\* x.Get(name), x.Set(name, value), x(args), x.Call(args),
\* x.MakeCallback(args), x.New(args), x == y
Ref_Op(r, other, op, o) ==
    /\ lastOp = NoRefOp
    /\ refs[r].state = "live"
    /\ refs[other].state = "live"
    /\ op # "Reference::operator==" => other = r
    /\ LET done == Reference_Op(op, host, refs[r].obj, refs[other].obj, roots,
                                collected, o)
       IN /\ host' = done.host
          /\ lastOp' = [op |-> op, r |-> r, threw |-> done.threw, e |-> done.e,
                        handle |-> done.result, produced |-> done.produced,
                        escapes |-> done.escapes, events |-> done.events,
                        callerScopes |-> host.scopes]
    /\ UNCHANGED <<errVars, crashed, asyncVars, trampVars, wrapVars, refs, roots, collected>>

\* User code: EscapableHandleScope scope(env)
EscapableScope(depth) == <<depth, "escapable">>

User_EscapableOpen ==
    /\ lastOp = NoRefOp
    /\ Len(host.scopes) < MaxScopes
    /\ host' = HandleScope_Open(host, EscapableScope(Len(host.scopes) + 1))
    /\ UNCHANGED <<errVars, crashed, asyncVars, trampVars, wrapVars, refVars>>

\* User code: scope.Escape(value) on its innermost scope, for a value it
\* made there; from user code or right after another scope.Escape.
User_Escape(value) ==
    /\ \/ lastOp = NoRefOp
       \/ lastOp.op = "Escape" /\ ~lastOp.threw /\ lastOp.first = NullHandle
    /\ Len(host.scopes) > 0
    /\ LET scope == CurrentScope(host)
           done == EscapableHandleScope_Escape(host, scope,
                                               [value |-> value, scope |-> scope])
       IN /\ scope = EscapableScope(Len(host.scopes))
          /\ host' = done.host
          /\ lastOp' = [op |-> "Escape", r |-> 0, threw |-> done.threw,
                        made |-> IF done.threw THEN done.host.heap[done.e].kind
                                 ELSE "none",
                        handle |-> done.result,
                        again |-> scope \in host.escaped,
                        first |-> IF lastOp = NoRefOp THEN NullHandle
                                  ELSE lastOp.handle]
    /\ UNCHANGED <<errVars, crashed, asyncVars, trampVars, wrapVars, refs, roots, collected>>

\* User code that holds strong and weak references and uses them through
\* the scoped operations, with handle scopes and escapable scopes of its
\* own, while the host's collector runs.
ScopeNext ==
    \/ \E r \in Refs, env \in Envs, value \in Handles, uninit \in BOOLEAN :
          Ref_Persistent(r, env, value, uninit)
    \/ \E r \in Refs, env \in Envs, value \in Handles, uninit \in BOOLEAN :
          Ref_Weak(r, env, value, uninit)
    \/ \E r, other \in Refs, op \in EscapingOps \cup PlainOps, o \in Outcomes :
          Ref_Op(r, other, op, o)
    \/ Ref_ScopeOpen
    \/ User_EscapableOpen
    \/ \E value \in PropValues : User_Escape(value)
    \/ Ref_ScopeClose
    \/ \E v \in HostValues : CollectValue(v)
    \/ RefResume

ScopeSpec == Init /\ [][ScopeNext]_vars

\* The host async machinery keeps running the hooks of queued work, and code
\* that has started runs on; the issuer need not queue and Execute() need
\* not set a message.
AsyncFairness ==
    \A r \in Workers :
        /\ WF_vars(HostInvoke(r))
        /\ WF_vars(OnExecute_Return(r))
        /\ WF_vars(WorkComplete_Open(r))
        /\ WF_vars(\E returns \in BOOLEAN : WorkComplete_Dispatch(r, returns))
        /\ WF_vars(WorkComplete_Return(r))
        /\ WF_vars(WorkComplete_Unwind(r) \/ WorkComplete_Terminate(r))
        /\ WF_vars(OnDestroy_Run(r))

AsyncFairSpec == AsyncSpec /\ AsyncFairness

\* ------------------------------------------------------------------------
\* Properties of the AsyncWorker
\* ------------------------------------------------------------------------
Logged(r, h, what) == \E i \in 1..Len(log[r]) : log[r][i] = <<h, what>>

\* e1 precedes every e2 in the event sequence l
Precedes(l, e1, e2) ==
    \A j \in 1..Len(l) : l[j] = e2 => \E i \in 1..(j - 1) : l[i] = e1

\* WorkComplete of work r has run its OnOK / OnError hook
Dispatched(r) == Logged(r, "OnWorkComplete", "start") /\ cstep[r] \notin {"entry", "scoped"}

\* C1: once the complete hook of a worker has dispatched, the worker's
\* completion callback has been invoked exactly once: with no argument and
\* through OnOK when the stored message is empty, otherwise through OnError
\* with one argument, a host Error whose message is the stored message byte
\* for byte.  Before that the callback has not been invoked.
C1_CompletionCallback ==
    \A w \in Workers :
        IF Dispatched(w)
        THEN /\ Len(cbCalls[w]) = 1
             /\ Len(taken[w]) = 1
             /\ IF worker[w]._errmsg = <<>>
                THEN /\ cbCalls[w][1].args = <<>>
                     /\ taken[w][1].hook = "OnOK"
                ELSE /\ cbCalls[w][1].args =
                            <<[kind |-> "Error", message |-> worker[w]._errmsg]>>
                     /\ taken[w][1].hook = "OnError"
        ELSE cbCalls[w] = <<>> /\ taken[w] = <<>>

C1_Witness ==
    /\ Dispatched(1) /\ worker[1]._errmsg = <<>> /\ cbCalls[1] # <<>>
    /\ Dispatched(2) /\ worker[2]._errmsg = WithNul
    /\ Len(cbCalls[2]) = 1 /\ Len(cbCalls[2][1].args) = 1
    /\ cbCalls[2][1].args[1].message = WithNul

\* C2: for every queued worker the complete hook starts only after the
\* execute hook has returned, and the destroy hook only after the complete
\* hook has returned (the hooks of the other workers being free to run in
\* between, before or after).
C2_HookOrder ==
    \A r \in Workers :
        /\ Precedes(log[r], <<"OnExecute", "end">>, <<"OnWorkComplete", "start">>)
        /\ Precedes(log[r], <<"OnWorkComplete", "end">>, <<"OnDestroy", "start">>)
        /\ Precedes(log[r], <<"OnExecute", "start">>, <<"OnExecute", "end">>)

\* Worker 2 has run all three hooks while worker 1, queued as well, has not
\* started; worker 1's execute hook then runs after worker 2's destroy hook.
C2_Witness ==
    /\ hostPhase[1] = 1 /\ log[1] = <<<<"OnExecute", "start">>>>
    /\ hostPhase[2] = 4 /\ Logged(2, "OnDestroy", "end")

\* The other orders between two workers: worker 1 first, and the hooks of
\* the two interleaved (the execute hook of one running on the pool while
\* the complete hook of the other runs on the main thread).
C2_OtherOrder ==
    /\ hostPhase[2] = 1 /\ log[2] = <<<<"OnExecute", "start">>>>
    /\ hostPhase[1] = 4 /\ Logged(1, "OnDestroy", "end")

C2_Interleaved ==
    /\ "OnExecute" \in active[1] /\ "OnWorkComplete" \in active[2]

\* C3: every worker that was queued is eventually destroyed.
Queued(w) == work[w].data = w

C3_EventuallyDestroyed ==
    \A w \in Workers : Queued(w) ~> (~worker[w].alive /\ hostPhase[w] = 4)

\* C4: a queued worker is deleted at most once and only by its destroy hook,
\* its work handle is deleted at most once, both exactly once when the
\* host is done with the work, and no hook starts on a deleted worker.
C4_DeletedOnce ==
    \A w \in Workers :
        /\ deletes[w].worker <= 1
        /\ deletes[w].work <= 1
        /\ ~uaf[w]
        /\ deletes[w].worker = 1 <=> ~worker[w].alive
        /\ ~worker[w].alive => Logged(w, "OnDestroy", "start") /\ active[w] \subseteq {"OnDestroy"}
        /\ hostPhase[w] = 4 => /\ deletes[w] = [worker |-> 1, work |-> 1]
                               /\ ~work[w].valid

C4_Witness ==
    \E w \in Workers :
        /\ hostPhase[w] = 4
        /\ deletes[w] = [worker |-> 1, work |-> 1]
        /\ Logged(w, "OnWorkComplete", "end")

\* C5: at most one hook of a worker is active at a time, and the message
\* WorkComplete reads is the last one Execute() stored with SetErrorMessage:
\* no write happens during or after the read.
C5_OnePhase ==
    \A w \in Workers :
        /\ Cardinality(active[w]) <= 1
        /\ \A i \in 1..Len(taken[w]) : taken[w][i].errmsg = written[w]
        /\ worker[w]._errmsg = written[w]

C5_Witness ==
    \E w \in Workers :
        /\ nsets[w] = 2
        /\ written[w] = Boom
        /\ taken[w] = <<[hook |-> "OnError", errmsg |-> Boom]>>

Returned == tpc = "returned" /\ call.caught

ThrownByCatch == Len(host.thrown) - call.thrownAtCatch

C8_CapturesPending ==
    (lastNew.made /\ lastNew.pre.pending # 0) =>
        /\ lastNew.value = lastNew.pre.pending
        /\ lastNew.post.pending = 0
        /\ lastNew.post.heap = lastNew.pre.heap

C8_Witness ==
    /\ lastNew.made
    /\ lastNew.pre.pending # 0
    /\ lastNew.pre.heap[lastNew.value].kind = "Thrown"
    /\ call.e = lastNew.value

\* C9: Error::New(env) called with nothing pending creates one host error: a
\* type error when the last error code is object-, string-, boolean- or
\* number-expected and a generic error otherwise, its message being the
\* ABI's last-error message, or the fallback text when there is none.
C9_ClassifiesStatus ==
    (lastNew.made /\ lastNew.pre.pending = 0) =>
        LET code == lastNew.pre.last.error_code
            msg  == lastNew.pre.last.error_message
            kind == IF code \in {"napi_object_expected", "napi_string_expected",
                                 "napi_boolean_expected", "napi_number_expected"}
                    THEN "TypeError" ELSE "Error"
            text == IF msg = NoMessage THEN FallbackMsg ELSE msg
        IN /\ lastNew.post.heap =
                  Append(lastNew.pre.heap, [kind |-> kind, message |-> text])
           /\ lastNew.value = Len(lastNew.post.heap)
           /\ lastNew.post.pending = 0

C9_Witness ==
    /\ lastNew.made
    /\ lastNew.pre.pending = 0
    /\ lastNew.pre.last = [error_code |-> "napi_number_expected",
                           error_message |-> NoMessage]
    /\ lastNew.post.heap[lastNew.value] = [kind |-> "TypeError", message |-> FallbackMsg]

\* C10: ThrowAsJavaScriptException on an Error without a host value leaves
\* the host as it was, a pending exception included; on an Error with a host
\* value it throws that value, which becomes the pending exception.
C10_ThrowIsNoOpWhenEmpty ==
    lastThrow.made =>
        IF lastThrow.value = 0
        THEN lastThrow.post = lastThrow.pre
        ELSE /\ lastThrow.post.pending = lastThrow.value
             /\ lastThrow.post.thrown = Append(lastThrow.pre.thrown, lastThrow.value)
             /\ lastThrow.post.heap = lastThrow.pre.heap

C10_Witness ==
    /\ lastThrow.made
    /\ lastThrow.value = 0
    /\ lastThrow.pre.pending # 0
    /\ host.pending = lastThrow.pre.pending

\* ------------------------------------------------------------------------
\* Properties of the registered callbacks and of ObjectWrap<T>
\* ------------------------------------------------------------------------

\* C11: a value-returning trampoline (function, static method, static
\* getter, instance method, instance getter) has stored a value in the ABI
\* return slot exactly when the user callback ran and returned without
\* throwing, and the value stored is the one the callback returned; a void
\* method or setter trampoline has stored nothing.
C11_ReturnSlot ==
    /\ lastCall.kind \in ValueTrampolines =>
          /\ (lastCall.ret # <<>>) <=> (lastCall.userRan /\ ~lastCall.threw)
          /\ lastCall.ret # <<>> => lastCall.ret = lastCall.result
    /\ lastCall.kind \in VoidTrampolines => lastCall.ret = <<>>

C11_Witness ==
    /\ lastCall.kind = "InstanceGetterCallbackWrapper"
    /\ lastCall.result = <<"v2">>
    /\ lastCall.ret = <<"v2">>

\* C12: for every kind of registration, the data pointer the user callback
\* reads from CallbackInfo::Data is the data pointer passed at registration.
C12_DataIsRegistered ==
    (lastCall.kind \in ValueTrampolines \cup VoidTrampolines /\ lastCall.userRan)
        => CallbackInfo_Data(lastCall.info) = lastCall.registered

\* C13: when the constructor trampoline is called without new, a host
\* TypeError is pending when it returns, the user's constructor did not run,
\* no instance was created, napi_wrap was not called and the return slot is
\* not set.
C13_RejectsPlainCall ==
    (lastCall.kind = "ConstructorCallbackWrapper" /\ ~lastCall.isConstructCall)
        => /\ ~lastCall.userRan
           /\ lastCall.created = 0
           /\ lastCall.wrapCalls = 0
           /\ lastCall.ret = <<>>
           /\ IsExceptionPending(host)
           /\ host.heap[host.pending] = [kind |-> "TypeError", message |-> ConstructorMsg]

C13_Witness ==
    /\ lastCall.kind = "ConstructorCallbackWrapper"
    /\ ~lastCall.isConstructCall
    /\ IsExceptionPending(host)
    /\ Len(objs) = 1

\* C14: when the constructor trampoline is called with new and the native
\* constructor returns, exactly one instance was created, the receiver is
\* the value in the return slot, and for as long as the receiver is not
\* collected it is wrapped and Unwrap of it returns exactly that instance,
\* which is alive; no instance is attached to two objects.
C14_ConstructAttaches ==
    /\ (lastCall.kind = "ConstructorCallbackWrapper" /\ lastCall.isConstructCall
            /\ ~lastCall.threw)
          => /\ lastCall.created = 1
             /\ lastCall.wrapCalls = 1
             /\ lastCall.ret = <<lastCall.recv>>
             /\ objs[lastCall.recv].instance = lastCall.instance
             /\ insts[lastCall.instance].wrapper = lastCall.recv
    /\ \A o \in 1..Len(objs) :
          (objs[o].instance # 0 /\ objs[o].state # "collected")
             => /\ objs[o].state = "wrapped"
                /\ ~ObjectWrap_Unwrap(HostInit, objs, o).threw
                /\ ObjectWrap_Unwrap(HostInit, objs, o).instance = objs[o].instance
                /\ insts[objs[o].instance].alive
    /\ \A o \in 1..Len(objs) :
          (lastCall.kind = "ConstructorCallbackWrapper" /\ lastCall.isConstructCall
              /\ ~lastCall.threw /\ o = lastCall.recv /\ objs[o].state # "collected")
             => objs[o].state = "wrapped"
    /\ \A o1, o2 \in 1..Len(objs) :
          (objs[o1].instance # 0 /\ objs[o1].instance = objs[o2].instance) => o1 = o2
    /\ (lastCall.kind = "Unwrap" /\ lastCall.recvState = "wrapped")
          => ~lastCall.threw /\ lastCall.instance = objs[lastCall.recv].instance

C14_Witness ==
    /\ lastCall.kind = "Unwrap"
    /\ lastCall.recv = 2
    /\ ~lastCall.threw
    /\ lastCall.instance = 2
    /\ objs[1].state = "wrapped"

C16_FinalizedOnce ==
    /\ \A i \in 1..Len(insts) :
          LET o == insts[i].wrapper
          IN /\ objs[o].instance = i
             /\ IF objs[o].state = "collected"
                THEN /\ ~insts[i].alive
                     /\ insts[i].deletes = 1
                     /\ insts[i].rootDeletes = 1
                     /\ ~objs[o].reachable
                ELSE /\ insts[i].alive
                     /\ insts[i].deletes = 0
                     /\ insts[i].rootDeletes = 0
                     /\ insts[i].base._ref = i
    /\ \A o \in 1..Len(objs) :
          objs[o].state = "collected" => ObjectWrap_Unwrap(HostInit, objs, o).threw
    /\ (lastCall.kind = "Unwrap" /\ lastCall.recvState = "collected")
          => lastCall.threw /\ lastCall.instance = 0

C16_Witness ==
    /\ lastCall.kind = "Unwrap"
    /\ lastCall.recvState = "collected"
    /\ lastCall.threw
    /\ insts[objs[lastCall.recv].instance].deletes = 1
    /\ insts[objs[lastCall.recv].instance].rootDeletes = 1

\* C17: an instance method, getter or setter trampoline runs the member
\* callback exactly when its receiver was wrapped and not collected at the
\* call, and then on the instance attached to the receiver; otherwise the
\* callback did not run and a host exception is pending when the trampoline
\* returns.
C17_InstanceDispatch ==
    lastCall.kind \in InstanceTrampolines =>
        IF lastCall.recvState = "wrapped"
        THEN /\ lastCall.userRan
             /\ lastCall.instance # 0
             /\ lastCall.instance = objs[lastCall.recv].instance
        ELSE /\ ~lastCall.userRan
             /\ lastCall.threw
             /\ lastCall.ret = <<>>
             /\ IsExceptionPending(host)

C17_Witness ==
    /\ lastCall.kind = "InstanceSetterCallbackWrapper"
    /\ lastCall.recvState = "collected"
    /\ ~lastCall.userRan
    /\ IsExceptionPending(host)

\* ------------------------------------------------------------------------
\* Properties of Reference<T>
\* ------------------------------------------------------------------------

\* C18 as stated, the part that fails: after Reset(value, count) the
\* reference holds a new root on value with the given count.
C18_AsStated ==
    [][\A r \in Refs, env \in Envs, value \in Handles, count \in RefCounts :
          Ref_ResetValue(r, env, value, count) =>
              /\ ~Reference_IsEmpty(refs'[r].obj)
              /\ roots'[refs'[r].obj._ref] =
                    [value |-> value, count |-> count, deletes |-> 0]]_vars

\* C18: Reset() on a reference that holds a root deletes that root once and
\* leaves the reference empty; Reset() on an empty reference changes
\* nothing.  Reset(value, count) deletes the root held before once, touches
\* no other root and, for a value that is not the empty handle, creates one
\* root on value with the given count and holds it; for the empty handle it
\* creates no root and leaves the reference empty.  No step, the destructor
\* included, deletes a root a second time.
C18_ResetReleasesOnce ==
    [][/\ \A r \in Refs :
            Ref_Reset(r) =>
                LET k == refs[r].obj._ref
                IN /\ Reference_IsEmpty(refs'[r].obj)
                   /\ IF k # 0
                      THEN /\ roots[k].deletes = 0
                           /\ roots'[k].deletes = 1
                           /\ \A j \in 1..Len(roots) : j # k => roots'[j] = roots[j]
                           /\ Len(roots') = Len(roots)
                      ELSE roots' = roots /\ refs' = refs
       /\ \A r \in Refs, env \in Envs, value \in Handles, count \in RefCounts :
            Ref_ResetValue(r, env, value, count) =>
                LET k == refs[r].obj._ref
                IN /\ k # 0 => roots[k].deletes = 0 /\ roots'[k].deletes = 1
                   /\ \A j \in 1..Len(roots) : j # k => roots'[j] = roots[j]
                   /\ refs'[r].obj._env = env
                   /\ IF value # "nullptr"
                      THEN /\ Len(roots') = Len(roots) + 1
                           /\ refs'[r].obj._ref = Len(roots')
                           /\ roots'[Len(roots')] =
                                 [value |-> value, count |-> count, deletes |-> 0]
                      ELSE /\ Len(roots') = Len(roots)
                           /\ Reference_IsEmpty(refs'[r].obj)
       /\ \A k \in 1..Len(roots') : roots'[k].deletes <= 1]_vars

\* Only one Reference has been constructed; it has held root 1, which has
\* been deleted, and now holds root 2, made by Reset(value, 0).
C18_Witness ==
    /\ refs[1].state = "live"
    /\ refs[2].state = "none"
    /\ Len(roots) = 2
    /\ roots[1].deletes = 1
    /\ refs[1].obj._ref = 2
    /\ roots[2] = [value |-> "a", count |-> 0, deletes |-> 0]

\* C19: Value() does not throw.  On an empty reference it returns the empty
\* handle, on a reference whose referent was collected (a weak reference,
\* count 0) it returns the empty handle, and otherwise it returns a handle
\* to the referent.
C19_ValueNeverFaults ==
    lastOp.op = "Value" =>
        LET this == refs[lastOp.r].obj
        IN /\ ~lastOp.threw
           /\ lastOp.value =
                 IF Reference_IsEmpty(this) THEN "nullptr"
                 ELSE IF roots[this._ref].value \in collected THEN "nullptr"
                 ELSE roots[this._ref].value
           /\ (~Reference_IsEmpty(this) /\ roots[this._ref].value \in collected)
                 => roots[this._ref].count = 0

C19_Witness ==
    /\ lastOp.op = "Value"
    /\ ~Reference_IsEmpty(refs[lastOp.r].obj)
    /\ roots[refs[lastOp.r].obj._ref].count = 0
    /\ roots[refs[lastOp.r].obj._ref].value \in collected
    /\ lastOp.value = "nullptr"
    /\ ~lastOp.threw

\* C20: a move construction or move assignment leaves the destination with
\* the root and the environment the source had and the source empty, and
\* from there destroying both deletes the transferred root once: the
\* destructor of the destination deletes it and the destructor of the
\* source deletes nothing.
C20_MoveTransfers ==
    [][\A dst, src \in Refs :
          ((\E uninit \in BOOLEAN : Ref_MoveCtor(dst, src, uninit))
              \/ Ref_MoveAssign(dst, src))
            => /\ refs'[dst].obj._ref = refs[src].obj._ref
               /\ refs'[dst].obj._env = refs[src].obj._env
               /\ Reference_IsEmpty(refs'[src].obj)
               /\ Reference_Dtor_Deletes(refs'[src].obj) = {}
               /\ ~Reference_IsEmpty(refs[src].obj)
                     => Reference_Dtor_Deletes(refs'[dst].obj) = {refs[src].obj._ref}]_vars

\* C21: a reference object that holds a root and on which SuppressDestruct()
\* was never called is one whose destructor releases that root, however the
\* object was constructed (as it stands right after construction by the
\* default constructor, by Reference::New or by move construction); once
\* SuppressDestruct() was called the destructor releases nothing; and no
\* root is ever released more than once.
C21_ReleasesUnlessSuppressed ==
    [][\A r \in Refs :
          /\ (refs[r].state = "none" /\ refs'[r].state = "live"
                 /\ ~Reference_IsEmpty(refs'[r].obj))
                => Reference_Dtor_Deletes(refs'[r].obj) = {refs'[r].obj._ref}
          /\ Ref_SuppressDestruct(r) => Reference_Dtor_Deletes(refs'[r].obj) = {}
          /\ \A k \in 1..Len(roots') : roots'[k].deletes <= 1]_vars

\* C22: a Ref() or Unref() that returns yields the count the root has after
\* the adjustment, one below (Unref) or one above (Ref, of a referent that
\* still exists) the count it found; an Unref() that finds count 1 returns
\* 0, the Ref() that follows it returns 1, and the Value() after that
\* yields the referent the reference was made from.
C22_RefUnrefRoundTrip ==
    lastOp.op \in {"Ref", "Unref", "Value"} =>
        LET k == refs[lastOp.r].obj._ref
        IN /\ (lastOp.op \in {"Ref", "Unref"} /\ ~lastOp.threw)
                 => /\ lastOp.count = roots[k].count
                    /\ lastOp.op = "Unref" => lastOp.count = lastOp.from - 1
                    /\ (lastOp.op = "Ref" /\ roots[k].value \notin collected)
                          => lastOp.count = lastOp.from + 1
           /\ (lastOp.op = "Unref" /\ lastOp.from = 1)
                 => ~lastOp.threw /\ lastOp.count = 0
           /\ (lastOp.op = "Ref" /\ lastOp.prior = <<"Unref">>)
                 => ~lastOp.threw /\ lastOp.count = 1
           /\ (lastOp.op = "Value" /\ lastOp.prior = <<"Unref", "Ref">>)
                 => /\ ~lastOp.threw
                    /\ lastOp.value \in HostValues
                    /\ lastOp.value = roots[k].value

C22_Witness ==
    /\ lastOp.op = "Value"
    /\ lastOp.prior = <<"Unref", "Ref">>
    /\ lastOp.value \in HostValues
    /\ roots[refs[lastOp.r].obj._ref].count = 1

\* C23: Persistent(value) makes a root of count at least 1 on its value, and
\* over every step that user code (making and resetting references, Ref,
\* Unref, opening and closing handle scopes) and the collector take, the
\* referent of a root whose count is at least 1 is not collected and
\* Value() on a reference to such a root returns that referent.
C23_StrongKeepsReferent ==
    [][/\ \A r \in Refs, env \in Envs, value \in HostValues, uninit \in BOOLEAN :
            Ref_Persistent(r, env, value, uninit)
              => /\ roots'[refs'[r].obj._ref].count >= 1
                 /\ roots'[refs'[r].obj._ref].value = value
       /\ \A k \in 1..Len(roots') :
            (roots'[k].deletes = 0 /\ roots'[k].count >= 1)
              => roots'[k].value \notin collected'
       /\ (lastOp'.op = "Value" /\ ~Reference_IsEmpty(refs'[lastOp'.r].obj))
            => LET k == refs'[lastOp'.r].obj._ref
               IN roots'[k].count >= 1
                    => /\ ~lastOp'.threw
                       /\ lastOp'.value \in HostValues
                       /\ lastOp'.value = roots'[k].value]_vars

C23_Witness ==
    /\ lastOp.op = "Value"
    /\ ~Reference_IsEmpty(refs[lastOp.r].obj)
    /\ roots[refs[lastOp.r].obj._ref].count >= 1
    /\ lastOp.value \in HostValues
    /\ Len(host.scopes) = 0
    /\ \E k \in 1..Len(roots) :
          /\ k # refs[lastOp.r].obj._ref
          /\ roots[k].value = lastOp.value
          /\ roots[k].count = 0

\* C24: when a trampoline has returned, the argument vector of its call was
\* allocated on the heap exactly when the argument count was above the
\* static threshold, and every vector allocated was freed exactly once,
\* whichever way the trampoline was left: the callback returned, a native
\* Error was thrown, or reading the arguments or the registration data from
\* the ABI failed.
C24_ArgsFreedOnce ==
    lastCall.kind \in ValueTrampolines \cup VoidTrampolines =>
        /\ lastCall.args.fails \notin {"napi_get_cb_this", "napi_get_cb_args_length"}
              => (lastCall.args.news = 1 <=> lastCall.args._argc > staticArgCount)
        /\ lastCall.args.news \in {0, 1}
        /\ lastCall.args.deletes = lastCall.args.news

\* C25: whichever call to a status-returning ABI entry point fails, its
\* caller throws a native Error made from the failure there and then.
C25_EveryStatusThrows ==
    lastCall.kind = "AbiCall" =>
        /\ lastCall.does = "throws"
        /\ lastCall.threw
        /\ lastCall.e \in 1..Len(host.heap)

\* C26: a callback metadata record whose function or class has been
\* released is no longer allocated; so when every function and class has
\* been released and every descriptor built belongs to one of them, no
\* record remains.
C26_MetadataReleased ==
    \A i \in 1..Len(metas) :
        (metas[i].owner # 0 /\ defs[metas[i].owner].released) => ~metas[i].alive

\* C30: the descriptor a registration function returns carries the flags
\* it was given, unchanged for InstanceMethod, InstanceAccessor and
\* InstanceValue and with napi_static_property and nothing else added for
\* StaticMethod, StaticAccessor and StaticValue; and a static trampoline or
\* a Function trampoline runs the registered callback whatever its receiver
\* is, without an Unwrap of it.
C30_AttributesReachDescriptor ==
    /\ lastCall.kind = "ClassProperty" =>
          /\ lastCall.how \in InstanceProperties
                => lastCall.desc.attributes = lastCall.attributes
          /\ lastCall.how \in StaticProperties
                => lastCall.desc.attributes
                      = lastCall.attributes \cup {"napi_static_property"}
    /\ lastCall.kind \in (ValueTrampolines \cup VoidTrampolines) \ InstanceTrampolines
          => /\ lastCall.userRan
             /\ lastCall.instance = 0
             /\ lastCall.recvState = "plain"

C30_Witness ==
    /\ lastCall.kind = "ClassProperty"
    /\ lastCall.how = "StaticAccessor"
    /\ lastCall.attributes = {"napi_read_only"}
    /\ lastCall.desc.attributes = {"napi_read_only", "napi_static_property"}

\* C27: an Escape on an escapable scope on which Escape was already called
\* throws a native Error and returns no handle, and the handle the first
\* Escape returned is still a valid handle of the parent scope; the first
\* Escape returns a valid handle of the parent scope.
C27_SecondEscapeThrows ==
    lastOp.op = "Escape" =>
        LET parent == ParentScope(host, CurrentScope(host))
        IN /\ lastOp.again
                 => /\ lastOp.threw
                    /\ lastOp.made \in {"Error", "TypeError"}
                    /\ lastOp.handle = NullHandle
                    /\ lastOp.first # NullHandle
                          => /\ HandleValid(host, lastOp.first)
                             /\ lastOp.first.scope = parent
           /\ ~lastOp.again
                 => /\ ~lastOp.threw
                    /\ HandleValid(host, lastOp.handle)
                    /\ lastOp.handle.scope = parent

C27_Witness ==
    /\ lastOp.op = "Escape"
    /\ lastOp.again
    /\ lastOp.threw
    /\ lastOp.first.value \in PropValues
    /\ HandleValid(host, lastOp.first)

\* C28: when ObjectReference::Get or FunctionReference's operator(), Call,
\* MakeCallback or New returns, its internal scope has accepted exactly one
\* escape and is closed, and the handle returned is a valid handle of the
\* caller's scope to the value that the property read or the call produced.
C28_ResultEscapedOnce ==
    (lastOp.op \in EscapingOps /\ ~lastOp.threw) =>
        /\ lastOp.escapes = 1
        /\ lastOp.produced \in PropValues
        /\ lastOp.handle.value = lastOp.produced
        /\ lastOp.handle.scope = CurrentScope(host)
        /\ HandleValid(host, lastOp.handle)
        /\ host.scopes = lastOp.callerScopes

C28_Witness ==
    /\ lastOp.op = "FunctionReference::New"
    /\ ~lastOp.threw
    /\ lastOp.handle.value = "p2"
    /\ lastOp.handle.scope = UserScope(1)
    /\ host.scopes = <<UserScope(1)>>

C31_MessageReadOnce ==
    /\ [][(/\ error.state = "live"
           /\ error.calls >= 1
           /\ error'.state = "live"
           /\ error'.calls = error.calls + 1)
              => (error'.reads = error.reads /\ error'.last = error.last)]_vars
    /\ [](~error.threw)

\* C32: every native instance the constructor trampoline has created is,
\* once the trampoline has returned, either attached to its host object (whose
\* finalizer deletes it) or deleted; this includes the calls in which
\* napi_wrap fails after the native constructor succeeded.
C32_InstanceOwned ==
    \A i \in 1..Len(insts) :
        \/ ~insts[i].alive
        \/ /\ objs[insts[i].wrapper].state = "wrapped"
           /\ objs[insts[i].wrapper].instance = i

\* C33: no native Error leaves the async complete hook for the host: when
\* the completion callback that OnOK or OnError invokes fails, the Error is
\* caught inside OnWorkComplete, the process goes on and the hook returns
\* normally (so that the host runs the destroy hook next).
C33_ErrorStaysInHook ==
    /\ ~crashed
    /\ \A r \in Workers :
          \A i \in 1..Len(log[r]) : log[r][i] # <<"OnWorkComplete", "threw">>

\* C34: a move of AsyncWorker A into B (construction or assignment) leaves B
\* with everything A owned: the completion-callback reference, the object
\* reference bag, the error message, the environment and the work handle,
\* and leaves A with none of them.
C34_MoveTransfersAll ==
    [][\A a, b \in Workers :
          (/\ a # b
           /\ worker[a].alive /\ worker'[a].alive
           /\ worker[a]._work # 0 /\ worker'[a]._work = 0
           /\ worker'[b]._work = worker[a]._work)
             => /\ worker'[b]._callback = worker[a]._callback
                /\ worker'[b]._persistent = worker[a]._persistent
                /\ worker'[b]._errmsg = worker[a]._errmsg
                /\ worker'[b]._env = worker[a]._env
                /\ worker'[a]._callback = 0
                /\ worker'[a]._persistent = 0
                /\ worker'[a]._errmsg = <<>>
                /\ worker'[a]._env = "nullptr"]_vars

\* C35: a step that leaves a root held by no live reference, when the
\* reference that held it had no suppression, releases that root exactly
\* once: this holds for Reset, for destruction and for a move assignment onto
\* a reference that holds a root; and no root is released twice.
C35_RootsReleasedOnce ==
    [][\A k \in 1..Len(roots) :
          /\ ((\E r \in Refs : /\ refs[r].state = "live"
                                /\ refs[r].obj._ref = k
                                /\ ~refs[r].obj._suppressDestruct)
               /\ ~(\E r \in Refs : refs'[r].state = "live" /\ refs'[r].obj._ref = k))
              => (roots[k].deletes = 0 /\ roots'[k].deletes = 1)
          /\ roots'[k].deletes <= 1]_vars

\* C36: when an ABI call made inside a user callback fails with host
\* exception X pending, Error::New takes X and leaves nothing pending, the
\* catch clause of the trampoline finds nothing pending and throws X, and
\* when the trampoline has returned the pending exception is X itself: the
\* same host value, unchanged, and no error was made in its place.
C36_PendingSurvives ==
    (Returned /\ call.threw /\ lastNew.made /\ lastNew.pre.pending # 0) =>
        LET X == lastNew.pre.pending
        IN /\ call.e = X
           /\ lastNew.post.pending = 0
           /\ call.pendingAtCatch = 0
           /\ ThrownByCatch = 1
           /\ host.thrown[Len(host.thrown)] = X
           /\ host.pending = X
           /\ host.heap = lastNew.pre.heap

\* A function call in which an ABI call failed because host code threw, and
\* the value host code threw is pending on return.
C36_Witness ==
    /\ Returned
    /\ call.kind = "FunctionCallbackWrapper"
    /\ call.threw
    /\ lastNew.made
    /\ lastNew.pre.last.error_code = "napi_pending_exception"
    /\ lastNew.pre.pending # 0
    /\ host.heap[host.pending].kind = "Thrown"
    /\ host.pending = lastNew.pre.pending

\* C37: the descriptor StaticAccessor or InstanceAccessor returns has a
\* getter trampoline exactly when a getter callback was registered and a
\* setter trampoline exactly when a setter callback was registered, so that
\* the host can reach no trampoline whose callback is null.
C37_TrampolineOnlyForCallback ==
    (lastCall.kind = "ClassProperty" /\ lastCall.how \in Accessors) =>
        /\ lastCall.desc.getter # "nullptr" <=> lastCall.getter
        /\ lastCall.desc.setter # "nullptr" <=> lastCall.setter

\* C38: info[index] for an index outside 0 <= index < Length(), negative
\* indexes included, is the host's undefined value and reads no element
\* outside the argument vector; for an index inside the range it is the
\* argument the host passed at that position.
C38_IndexInRange ==
    lastCall.kind = "operator[]" =>
        /\ ~lastCall.read.outside
        /\ lastCall.read.value =
              IF 0 <= lastCall.index /\ lastCall.index < lastCall.args._argc
              THEN <<"arg", lastCall.index>> ELSE <<"undefined">>

\* C39: a Reset() whose release fails throws and leaves the reference and
\* every root as they were (non-empty, holding its root); a Reset(value,
\* count) whose release fails does the same, and one whose root creation
\* fails throws and leaves the reference empty with the root it held before
\* released once and no root made; and no live reference ever holds a root
\* that was released or does not exist.
C39_FailedResetConsistent ==
    /\ [][\A r \in Refs :
            /\ Ref_ResetFails(r) =>
                  /\ lastOp'.threw
                  /\ refs' = refs /\ roots' = roots
                  /\ ~Reference_IsEmpty(refs'[r].obj)
            /\ \A env \in Envs, value \in Handles, count \in RefCounts :
                  /\ Ref_ResetValueFails(r, env, value, count, "napi_delete_reference")
                        => /\ lastOp'.threw
                           /\ refs' = refs /\ roots' = roots
                           /\ ~Reference_IsEmpty(refs'[r].obj)
                  /\ Ref_ResetValueFails(r, env, value, count, "napi_create_reference")
                        => LET k == refs[r].obj._ref
                           IN /\ lastOp'.threw
                              /\ Reference_IsEmpty(refs'[r].obj)
                              /\ Len(roots') = Len(roots)
                              /\ k # 0 => roots[k].deletes = 0 /\ roots'[k].deletes = 1
                              /\ \A j \in 1..Len(roots) : j # k => roots'[j] = roots[j]]_vars
    /\ [](\A r \in Refs :
            (refs[r].state = "live" /\ ~Reference_IsEmpty(refs[r].obj))
               => /\ refs[r].obj._ref \in 1..Len(roots)
                  /\ roots[refs[r].obj._ref].deletes = 0)

\* A Reset(value, count) on a reference that held root 1 has thrown because
\* the root could not be created: the reference is empty and root 1 was
\* released once.
C39_Witness ==
    /\ lastOp.op = "ResetValue"
    /\ lastOp.threw
    /\ lastOp.fails = "napi_create_reference"
    /\ Reference_IsEmpty(refs[lastOp.r].obj)
    /\ Len(roots) = 1
    /\ roots[1].deletes = 1

====
